---- MODULE Spec2Model ----
(***************************************************************************)
(* A model of lgrep's indexing pipeline: the Chunker (src/src/chunker.rs), *)
(* the Vector Index with its sidecar metadata and its three files on disk  *)
(* (src/src/index.rs) and the Indexer's build / incremental update         *)
(* (src/src/indexer.rs), run against a small file tree that is edited      *)
(* between the operations; and of the index and watch commands             *)
(* (src/src/main.rs, src/src/watcher.rs) that drive it.                    *)
(***************************************************************************)
EXTENDS Integers, Sequences, FiniteSets, TLC

(***************************************************************************)
(* Bounds of the model.                                                    *)
(***************************************************************************)
\* Config.chunk_size, scaled down so that a three-character file splits.
ChunkSize == 2
\* Config.chunk_overlap, scaled down likewise.
ChunkOverlap == 1
\* Operations are followed while next_id stays at or below this.
MaxNextId == 4

\* The largest top_k a search asks for.
MaxTopK == 2

\* The longest text given to the chunker alone, and its largest sizes.
MaxTextLen == 5

MaxChunkSize == 4

MaxOverlap == 4

\* MAX_HISTORY_SIZE (100), scaled down.
MAX_HISTORY_SIZE == 3

\* The texts of one embed_batch_with_progress call and its batch_size are
\* at most these (the indexer passes all chunks and 32).
MaxTexts == 4

MaxBatchSize == 3

(***************************************************************************)
(* The file tree.  A path is <<stem, extension>>, relative to the root.    *)
(* A file's content is a sequence of characters; LF is the line feed.      *)
(***************************************************************************)
LF == "LF"

Paths == {<<"a", "rs">>, <<"b", "py">>}

\* "", "x", "x\n" (the same lines as "x", another hash) and "x\nx".
FileContents == {<<>>, <<"x">>, <<"x", LF>>, <<"x", LF, "x">>}

Absent == <<"absent">>

CODE_EXTENSIONS ==
    {"rs", "py", "pyi", "pyw", "js", "jsx", "ts", "tsx", "mjs", "cjs", "go",
     "java", "kt", "kts", "c", "h", "cpp", "hpp", "cc", "cxx", "hxx", "cs",
     "rb", "rake", "php", "swift", "scala", "sc", "sh", "bash", "zsh", "fish",
     "sql", "html", "htm", "css", "scss", "sass", "less", "vue", "svelte",
     "json", "yaml", "yml", "toml", "ini", "cfg", "conf", "md", "mdx", "rst",
     "txt", "tf", "hcl", "xml", "csv"}

should_index_file(path) == path[2] \in CODE_EXTENSIONS

\* SHA-256 of the content as hex: an injective code of the character sequence.
RECURSIVE HashFrom(_, _, _)
HashFrom(content, i, h) ==
    IF i > Len(content) THEN h
    ELSE HashFrom(content, i + 1, 3 * h + (IF content[i] = LF THEN 2 ELSE 1))

compute_hash(content) == HashFrom(content, 1, 1)

(***************************************************************************)
(* Chunker.                                                                *)
(***************************************************************************)
\* str::lines(): split at line feeds; the final line ending is optional.
RECURSIVE LinesFrom(_, _, _, _)
LinesFrom(text, i, cur, acc) ==
    IF i > Len(text) THEN (IF cur = <<>> THEN acc ELSE Append(acc, cur))
    ELSE IF text[i] = LF THEN LinesFrom(text, i + 1, <<>>, Append(acc, cur))
    ELSE LinesFrom(text, i + 1, Append(cur, text[i]), acc)

\* str::lines done wrongly: the empty text has one empty line.
Lines_OfEmpty(text) ==
    IF text = <<>> THEN << <<>> >> ELSE LinesFrom(text, 1, <<>>, <<>>)

Lines(text) == LinesFrom(text, 1, <<>>, <<>>)

\* [&str]::join("\n")
RECURSIVE JoinFrom(_, _, _)
JoinFrom(lines, i, acc) ==
    IF i > Len(lines) THEN acc
    ELSE JoinFrom(lines, i + 1,
                  IF i = 1 THEN lines[i] ELSE acc \o <<LF>> \o lines[i])

Join(lines) == JoinFrom(lines, 1, <<>>)

RECURSIVE SizeOf(_)
SizeOf(lines) ==
    IF lines = <<>> THEN 0 ELSE Len(Head(lines)) + 1 + SizeOf(Tail(lines))

detect_language(file_path) ==
    CASE file_path[2] = "rs" -> "rust"
      [] file_path[2] \in {"py", "pyi", "pyw"} -> "python"
      [] file_path[2] = "tsx" -> "typescriptreact"
      [] OTHER -> "none"

\* Walks the buffer from its end; stops at the first line that would exceed
\* the overlap; keeps at least one line.
RECURSIVE OverlapWalk(_, _, _, _, _)
OverlapWalk(overlap, lines, k, size, count) ==
    IF k < 1 THEN count
    ELSE IF size + Len(lines[k]) + 1 > overlap THEN count
    ELSE OverlapWalk(overlap, lines, k - 1, size + Len(lines[k]) + 1,
                     count + 1)

Max(a, b) == IF a >= b THEN a ELSE b

\* F applied to a value computed once.
With(x, F(_)) == F(x)

Min(a, b) == IF a <= b THEN a ELSE b

\* The walk done wrongly: the line that crosses the overlap is counted too.
calculate_overlap_lines_CountCrossing(overlap, lines) ==
    Max(Min(OverlapWalk(overlap, lines, Len(lines), 0, 0) + 1, Len(lines)), 1)

calculate_overlap_lines(overlap, lines) ==
    Max(OverlapWalk(overlap, lines, Len(lines), 0, 0), 1)

\* Chunker::new
Chunker_new(chunk_size, overlap) ==
    [chunk_size |-> chunk_size, overlap |-> overlap]

\* The chunk done wrongly: its text is its first line alone.
MakeChunk_FirstLine(id, buf, start_line, file_path, file_hash) ==
    [id |-> id, text |-> Join(<<buf[1]>>), file_path |-> file_path,
     start_line |-> start_line, end_line |-> start_line + Len(buf) - 1,
     file_hash |-> file_hash, language |-> detect_language(file_path)]

\* The chunk done wrongly: its range is its first line alone.
MakeChunk_OneLine(id, buf, start_line, file_path, file_hash) ==
    [id |-> id, text |-> Join(buf), file_path |-> file_path,
     start_line |-> start_line, end_line |-> start_line,
     file_hash |-> file_hash, language |-> detect_language(file_path)]

MakeChunk(id, buf, start_line, file_path, file_hash) ==
    [id |-> id, text |-> Join(buf), file_path |-> file_path,
     start_line |-> start_line, end_line |-> start_line + Len(buf) - 1,
     file_hash |-> file_hash, language |-> detect_language(file_path)]

\* The loop of chunk_text over lines[i..]; i is 1-based here, so the source's
\* 0-based index is i - 1.  fp is <<file_path, file_hash, chunker>>.
RECURSIVE ChunkLoop(_, _, _, _, _, _, _, _)
ChunkLoop(lines, i, chunks, buf, size, start_line, id, fp) ==
    IF i > Len(lines)
    THEN IF buf # <<>>
         THEN Append(chunks, MakeChunk(id, buf, start_line, fp[1], fp[2]))
         ELSE chunks
    ELSE LET line_len == Len(lines[i]) + 1
         IN IF size + line_len > fp[3].chunk_size /\ buf # <<>>
            THEN LET keep == Min(calculate_overlap_lines(fp[3].overlap, buf),
                                 Len(buf))
                     kept == SubSeq(buf, Len(buf) - keep + 1, Len(buf))
                 IN IF keep > 0
                    THEN ChunkLoop(lines, i + 1,
                             Append(chunks,
                                    MakeChunk(id, buf, start_line, fp[1], fp[2])),
                             Append(kept, lines[i]),
                             SizeOf(kept) + line_len,
                             (i - 1) + 1 - keep + 1, id + 1, fp)
                    ELSE ChunkLoop(lines, i + 1,
                             Append(chunks,
                                    MakeChunk(id, buf, start_line, fp[1], fp[2])),
                             <<lines[i]>>, line_len, (i - 1) + 2, id + 1, fp)
            ELSE ChunkLoop(lines, i + 1, chunks, Append(buf, lines[i]),
                           size + line_len, start_line, id, fp)

\* chunk_text of a Chunker.
Chunker_chunk_text(chunker, text, file_path, file_hash, start_id) ==
    ChunkLoop(Lines(text), 1, <<>>, <<>>, 0, 1, start_id,
              <<file_path, file_hash, chunker>>)

\* chunk_text of the Indexer's Chunker, made from the configuration.
chunk_text(text, file_path, file_hash, start_id) ==
    Chunker_chunk_text(Chunker_new(ChunkSize, ChunkOverlap), text, file_path,
                       file_hash, start_id)

(***************************************************************************)
(* Embedding models and the Embedder.  An embedding is modelled by the     *)
(* model that produced it and its length: the store keeps, under each key, *)
(* the vector it was given.                                                *)
(***************************************************************************)
Models ==
    {"AllMiniLmL6V2", "BgeSmallEnV15", "NomicEmbedTextV15",
     "MultilingualE5Small"}

model_name(m) ==
    CASE m = "AllMiniLmL6V2" -> "sentence-transformers/all-MiniLM-L6-v2"
      [] m = "BgeSmallEnV15" -> "BAAI/bge-small-en-v1.5"
      [] m = "NomicEmbedTextV15" -> "nomic-ai/nomic-embed-text-v1.5"
      [] m = "MultilingualE5Small" -> "intfloat/multilingual-e5-small"

dimension(m) == IF m = "NomicEmbedTextV15" THEN 768 ELSE 384

\* embed_batch_with_progress on success: one vector of the embedder's
\* model and dimension per text, in input order.
embed_batch_with_progress(texts, m) ==
    [k \in 1..Len(texts) |-> [model |-> model_name(m), len |-> dimension(m)]]

\* Embedder::embed_batch on success: the vector of each text, in the order
\* of the texts.
embed_batch(texts, m) ==
    [k \in 1..Len(texts) |->
        [model |-> model_name(m), len |-> dimension(m), of |-> texts[k]]]

\* done done wrongly: the count of the full slices, not clamped to total.
Done_Unclamped(i, batch_size, total) == (i + 1) * batch_size

\* The done of the progress callback after the slice of index i.
Done(i, batch_size, total) == Min((i + 1) * batch_size, total)

\* The loop of embed_batch_with_progress over texts.chunks(batch_size), from
\* the slice of index i on.  acc holds all_embeddings, the slices handed to
\* embed_batch and the calls of the callback so far; cfg = <<m, fail_at>>,
\* where the embed_batch of slice number fail_at fails (0: none does).
RECURSIVE EmbedLoop(_, _, _, _, _)
EmbedLoop(texts, batch_size, i, acc, cfg) ==
    LET total == Len(texts)
        from == i * batch_size + 1
        batch == SubSeq(texts, from, Min(from + batch_size - 1, total))
    IN IF from > total THEN [acc EXCEPT !.status = "ok"]
       ELSE IF cfg[2] = i + 1
            THEN [acc EXCEPT !.status = "Embedding", !.embeddings = <<>>,
                             !.batches = Append(acc.batches, batch)]
       ELSE EmbedLoop(texts, batch_size, i + 1,
                      [acc EXCEPT
                         !.embeddings = acc.embeddings \o embed_batch(batch, cfg[1]),
                         !.batches = Append(acc.batches, batch),
                         !.progress = Append(acc.progress,
                                             <<Done(i, batch_size, total), total>>)],
                      cfg)

\* Embedder::embed_batch_with_progress; slice::chunks panics on a
\* chunk size of 0.
Embedder_embed_batch_with_progress(m, texts, batch_size, fail_at) ==
    LET start == [status |-> "panic", embeddings |-> <<>>, batches |-> <<>>,
                  progress |-> <<>>]
    IN IF batch_size = 0 THEN start
       ELSE EmbedLoop(texts, batch_size, 0, start, <<m, fail_at>>)

(***************************************************************************)
(* Vector Index: the ANN store (key -> vector) and the sidecar metadata.   *)
(***************************************************************************)
NoVectors == [k \in {} |-> 0]

NoHashes == [p \in {} |-> 0]

IndexMetadata_new(name, dim) ==
    [chunks |-> <<>>, file_hashes |-> NoHashes, next_id |-> 0,
     model_name |-> name, dimension |-> dim]

VectorIndex_new(m) ==
    [index |-> NoVectors,
     metadata |-> IndexMetadata_new(model_name(m), dimension(m))]

ChunkIds(chunks) == {chunks[k].id : k \in 1..Len(chunks)}

ChunkSet(chunks) == {chunks[k] : k \in 1..Len(chunks)}

RECURSIVE SetMax(_)
SetMax(S) ==
    IF S = {} THEN 0
    ELSE LET x == CHOOSE y \in S : TRUE IN Max(x, SetMax(S \ {x}))

RECURSIVE Retain(_, _)
Retain(chunks, file_path) ==
    IF chunks = <<>> THEN <<>>
    ELSE IF Head(chunks).file_path # file_path
         THEN <<Head(chunks)>> \o Retain(Tail(chunks), file_path)
         ELSE Retain(Tail(chunks), file_path)

\* The ids of the chunks of file_path, in chunk order.
RECURSIVE IdsOf(_, _)
IdsOf(chunks, file_path) ==
    IF chunks = <<>> THEN <<>>
    ELSE IF Head(chunks).file_path = file_path
         THEN <<Head(chunks).id>> \o IdsOf(Tail(chunks), file_path)
         ELSE IdsOf(Tail(chunks), file_path)

SeqRange(s) == {s[k] : k \in 1..Len(s)}

Restrict(f, S) == [x \in S |-> f[x]]

\* The loop of index.add calls: a key already in the store is refused
\* (multi: false) and ends the loop with the vectors added so far.
RECURSIVE AddVectors(_, _, _, _)
AddVectors(index, chunks, embeddings, k) ==
    IF k > Len(chunks) THEN [ok |-> TRUE, index |-> index]
    ELSE IF chunks[k].id \in DOMAIN index THEN [ok |-> FALSE, index |-> index]
    ELSE AddVectors((chunks[k].id :> embeddings[k]) @@ index,
                    chunks, embeddings, k + 1)

RECURSIVE InsertHashes(_, _, _)
InsertHashes(file_hashes, chunks, k) ==
    IF k > Len(chunks) THEN file_hashes
    ELSE InsertHashes((chunks[k].file_path :> chunks[k].file_hash)
                          @@ file_hashes, chunks, k + 1)

\* remove_file done wrongly: the vectors stay in the ANN store.
remove_file_KeepVectors(vi, file_path) ==
    [vi |->
       [vi EXCEPT
          !.metadata.chunks = Retain(@, file_path),
          !.metadata.file_hashes = Restrict(@, DOMAIN @ \ {file_path})],
     removed_ids |-> IdsOf(vi.metadata.chunks, file_path)]

\* remove_file done wrongly: only the hash entry goes, the chunks stay.
remove_file_HashOnly(vi, file_path) ==
    [vi |->
       [vi EXCEPT
          !.metadata.file_hashes = Restrict(@, DOMAIN @ \ {file_path})],
     removed_ids |-> IdsOf(vi.metadata.chunks, file_path)]

\* remove_file done wrongly: next_id is recomputed from the chunks that are left.
remove_file_ResetNextId(vi, file_path) ==
    [vi |->
       [index |->
          Restrict(vi.index,
                   DOMAIN vi.index \ SeqRange(IdsOf(vi.metadata.chunks, file_path))),
        metadata |->
          [vi.metadata EXCEPT
             !.chunks = Retain(@, file_path),
             !.file_hashes = Restrict(@, DOMAIN @ \ {file_path}),
             !.next_id =
                 SetMax(ChunkIds(Retain(vi.metadata.chunks, file_path))) + 1]],
     removed_ids |-> IdsOf(vi.metadata.chunks, file_path)]

\* remove_file done wrongly: every hash entry goes, not only file_path's.
remove_file_ClearHashes(vi, file_path) ==
    [vi |->
       [index |->
          Restrict(vi.index,
                   DOMAIN vi.index \ SeqRange(IdsOf(vi.metadata.chunks, file_path))),
        metadata |->
          [vi.metadata EXCEPT
             !.chunks = Retain(@, file_path),
             !.file_hashes = NoHashes]],
     removed_ids |-> IdsOf(vi.metadata.chunks, file_path)]

\* remove_file: [vi, removed_ids]
remove_file(vi, file_path) ==
    With(IdsOf(vi.metadata.chunks, file_path), LAMBDA removed_ids :
    LET md == vi.metadata
    IN [vi |->
          [index |-> Restrict(vi.index, DOMAIN vi.index \ SeqRange(removed_ids)),
           metadata |->
             [md EXCEPT !.chunks = Retain(md.chunks, file_path),
                        !.file_hashes =
                            Restrict(md.file_hashes,
                                     DOMAIN md.file_hashes \ {file_path})]],
        removed_ids |-> removed_ids])

\* NextIdAfter done wrongly: the largest id present, without the + 1.
NextIdAfter_NoIncrement(chunks) == SetMax(ChunkIds(chunks))

\* The id after the largest one present (1 when there is no chunk).
NextIdAfter(chunks) == SetMax(ChunkIds(chunks)) + 1

\* add_chunks done wrongly: the counts are not compared; the chunks are added
\* with as many vectors as the zip of chunks and embeddings gives.
add_chunks_NoCountCheck(vi, chunks, embeddings) ==
    LET n == Min(Len(chunks), Len(embeddings))
        added == AddVectors(vi.index, SubSeq(chunks, 1, n),
                            SubSeq(embeddings, 1, n), 1)
        all == vi.metadata.chunks \o chunks
    IN [status |-> "ok",
        vi |-> [index |-> added.index,
                metadata |->
                  [vi.metadata EXCEPT
                     !.chunks = all,
                     !.file_hashes = InsertHashes(@, chunks, 1),
                     !.next_id = NextIdAfter(all)]]]

\* add_chunks: [status, vi]
add_chunks(vi, chunks, embeddings) ==
    IF Len(chunks) # Len(embeddings) THEN [status |-> "Index", vi |-> vi]
    ELSE With(AddVectors(vi.index, chunks, embeddings, 1), LAMBDA added :
         LET md == vi.metadata
             all == md.chunks \o chunks
         IN IF ~added.ok
            THEN [status |-> "Index", vi |-> [vi EXCEPT !.index = added.index]]
            ELSE [status |-> "ok",
                  vi |-> [index |-> added.index,
                          metadata |->
                            [md EXCEPT
                               !.chunks = all,
                               !.file_hashes =
                                   InsertHashes(md.file_hashes, chunks, 1),
                               !.next_id = NextIdAfter(all)]]])

\* Cosine distances the ANN store may report: 0, 1 and 2.
Distances == {0, 1, 2}

\* The distances of the filtered and keyword searches.
QueryDistances == {0, 1}

\* What the ANN store may answer to a search for top_k neighbours: at most
\* top_k of its keys, each once, each with a distance from dists.
AnnSearch(vi, top_k, dists) ==
    UNION {{h \in [1..n -> [key : DOMAIN vi.index, distance : dists]] :
               \A i, j \in 1..n : i # j => h[i].key # h[j].key} :
           n \in 0..Min(top_k, Cardinality(DOMAIN vi.index))}

\* chunks.iter().find(|c| c.id == key): the first chunk with the id, if any.
RECURSIVE FindChunk(_, _)
FindChunk(chunks, key) ==
    IF chunks = <<>> THEN <<>>
    ELSE IF Head(chunks).id = key THEN <<Head(chunks)>>
    ELSE FindChunk(Tail(chunks), key)

\* The loop over the hits: a SearchResult with score 1 - distance for each
\* hit that has a chunk record; a hit without one is dropped.
RECURSIVE SearchResults(_, _)
SearchResults(chunks, hits) ==
    IF hits = <<>> THEN <<>>
    ELSE With(FindChunk(chunks, Head(hits).key), LAMBDA found :
         IF found = <<>> THEN SearchResults(chunks, Tail(hits))
         ELSE <<[chunk |-> found[1], score |-> 1 - Head(hits).distance]>>
                  \o SearchResults(chunks, Tail(hits)))

\* r put into a list sorted by descending score, after the results of the
\* same score (the sort is stable).
RECURSIVE InsertByScore(_, _)
InsertByScore(sorted, r) ==
    IF sorted = <<>> THEN <<r>>
    ELSE IF Head(sorted).score >= r.score
         THEN <<Head(sorted)>> \o InsertByScore(Tail(sorted), r)
         ELSE <<r>> \o sorted

\* sort_by(|a, b| b.score.partial_cmp(&a.score)): by descending score.
RECURSIVE SortByScore(_, _)
SortByScore(results, sorted) ==
    IF results = <<>> THEN sorted
    ELSE SortByScore(Tail(results), InsertByScore(sorted, Head(results)))

\* search done wrongly: the results stay in the order of the hits.
search_Unsorted(vi, hits) ==
    IF DOMAIN vi.index = {} THEN <<>>
    ELSE SearchResults(vi.metadata.chunks, hits)

\* search, given the hits the ANN store answered.
search(vi, hits) ==
    IF DOMAIN vi.index = {} THEN <<>>
    ELSE SortByScore(SearchResults(vi.metadata.chunks, hits), <<>>)

get_file_hash(vi, file_path) ==
    IF file_path \in DOMAIN vi.metadata.file_hashes
    THEN <<vi.metadata.file_hashes[file_path]>>
    ELSE <<>>

indexed_files(vi) == DOMAIN vi.metadata.file_hashes

file_count(vi) == Cardinality(DOMAIN vi.metadata.file_hashes)

chunk_count(vi) == Len(vi.metadata.chunks)

(***************************************************************************)
(* The search filter.  An Option is None or Some(v).  A regex pattern is   *)
(* a literal, which matches the paths that contain it, or "(", which does  *)
(* not compile.  A path without extension is <<stem>>.                     *)
(***************************************************************************)
None == [some |-> FALSE]

Some(v) == [some |-> TRUE, value |-> v]

\* str::to_lowercase, on the strings of the model.
to_lowercase(str) ==
    CASE str = "RS" -> "rs"
      [] str = "Rust" -> "rust"
      [] str = "Q" -> "q"
      [] OTHER -> str

\* Path::extension
extension(file_path) ==
    IF Len(file_path) >= 2 THEN Some(file_path[2]) ELSE None

\* Regex::new
Regex_new(pattern) ==
    IF pattern = "(" THEN [ok |-> FALSE] ELSE [ok |-> TRUE, literal |-> pattern]

\* is_match done wrongly: every string matches.
is_match_Any(regex, file_path) == TRUE

\* Regex::is_match
is_match(regex, file_path) ==
    \E k \in 1..Len(file_path) : file_path[k] = regex.literal

\* list.iter().any(|e| e.to_lowercase() == str)
AnyLowercased(list, str) ==
    \E k \in 1..Len(list) : to_lowercase(list[k]) = str

\* matches done wrongly: a score equal to min_score is rejected.
matches_ScoreStrict(filter, chunk, score) ==
    IF filter.min_score.some /\ score <= filter.min_score.value THEN FALSE
    ELSE IF filter.extensions.some /\ ~extension(chunk.file_path).some
    THEN FALSE
    ELSE IF filter.extensions.some
            /\ ~AnyLowercased(filter.extensions.value,
                  to_lowercase(extension(chunk.file_path).value))
    THEN FALSE
    ELSE IF filter.languages.some /\ chunk.language = "none" THEN FALSE
    ELSE IF filter.languages.some
            /\ ~AnyLowercased(filter.languages.value,
                              to_lowercase(chunk.language))
    THEN FALSE
    ELSE IF filter.path_pattern.some
            /\ Regex_new(filter.path_pattern.value).ok
            /\ ~is_match(Regex_new(filter.path_pattern.value), chunk.file_path)
    THEN FALSE
    ELSE IF filter.exclude_pattern.some
            /\ Regex_new(filter.exclude_pattern.value).ok
            /\ is_match(Regex_new(filter.exclude_pattern.value),
                        chunk.file_path)
    THEN FALSE
    ELSE TRUE

\* SearchFilter::matches; a chunk's language "none" is None.
matches(filter, chunk, score) ==
    IF filter.min_score.some /\ score < filter.min_score.value THEN FALSE
    ELSE IF filter.extensions.some /\ ~extension(chunk.file_path).some
    THEN FALSE
    ELSE IF filter.extensions.some
            /\ ~AnyLowercased(filter.extensions.value,
                  to_lowercase(extension(chunk.file_path).value))
    THEN FALSE
    ELSE IF filter.languages.some /\ chunk.language = "none" THEN FALSE
    ELSE IF filter.languages.some
            /\ ~AnyLowercased(filter.languages.value,
                              to_lowercase(chunk.language))
    THEN FALSE
    ELSE IF filter.path_pattern.some
            /\ Regex_new(filter.path_pattern.value).ok
            /\ ~is_match(Regex_new(filter.path_pattern.value), chunk.file_path)
    THEN FALSE
    ELSE IF filter.exclude_pattern.some
            /\ Regex_new(filter.exclude_pattern.value).ok
            /\ is_match(Regex_new(filter.exclude_pattern.value),
                        chunk.file_path)
    THEN FALSE
    ELSE TRUE

(***************************************************************************)
(* The searcher.  search_with_filter and hybrid_search are called by       *)
(* cmd_search; they are given the hits the ANN store answered to a search  *)
(* for Overfetch(top_k) neighbours.  A filter and a keyword are Options.   *)
(***************************************************************************)
\* K', the number of neighbours asked of the ANN store: top_k oversampled.
Overfetch(top_k) == Max(top_k * 4, top_k)

Take(seq, n) == SubSeq(seq, 1, Min(n, Len(seq)))

\* The final cap: filter.max_results when it is set, else top_k.
Cap(top_k, filter) ==
    IF filter.some /\ filter.value.max_results.some
    THEN filter.value.max_results.value
    ELSE top_k

\* The results the filter lets through, in their order.
ApplyFilter(results, filter) ==
    IF filter.some
    THEN SelectSeq(results, LAMBDA r : matches(filter.value, r.chunk, r.score))
    ELSE results

search_with_filter(vi, hits, top_k, filter) ==
    Take(ApplyFilter(search(vi, hits), filter), Cap(top_k, filter))

\* The results whose chunk text the keyword matches, in their order.
ApplyKeyword(results, keyword) ==
    IF keyword.some
    THEN SelectSeq(results,
                   LAMBDA r : is_match(Regex_new(keyword.value), r.chunk.text))
    ELSE results

hybrid_search(vi, hits, keyword, top_k, filter) ==
    IF keyword.some /\ ~Regex_new(keyword.value).ok
    THEN [status |-> "InvalidRegex", results |-> <<>>]
    ELSE [status |-> "ok",
          results |-> Take(ApplyKeyword(ApplyFilter(search(vi, hits), filter),
                                        keyword),
                           Cap(top_k, filter))]

(***************************************************************************)
(* Persistence: the three files of the index directory.                    *)
(***************************************************************************)
\* bincode of IndexMetadata: the fields in declaration order, the hash map
\* as its entries.
Serialize(md) ==
    <<md.chunks, {<<p, md.file_hashes[p]>> : p \in DOMAIN md.file_hashes},
      md.next_id, md.model_name, md.dimension>>

\* Deserialize done wrongly: the file_hashes entries are not read back.
Deserialize_NoHashes(bytes) ==
    [chunks |-> bytes[1], file_hashes |-> NoHashes, next_id |-> bytes[3],
     model_name |-> bytes[4], dimension |-> bytes[5]]

Deserialize(bytes) ==
    [chunks |-> bytes[1],
     file_hashes |->
        [p \in {e[1] : e \in bytes[2]} |->
            (CHOOSE e \in bytes[2] : e[1] = p)[2]],
     next_id |-> bytes[3], model_name |-> bytes[4], dimension |-> bytes[5]]

NoFile == [exists |-> FALSE, data |-> <<>>]

File(data) == [exists |-> TRUE, data |-> data]

EmptyDisk == [vectors |-> NoFile, metadata |-> NoFile, config |-> NoFile]

\* Where an operation fails or the process dies; "none" is the run without
\* failure.
UpdateFails == {"discover", "embed"}

SaveFails ==
    {"save_dir", "save_vectors", "save_serialize", "save_metadata",
     "save_config"}

Crashes == {"crash_update", "crash_vectors", "crash_metadata"}

FailPoints == {"none"} \cup UpdateFails \cup SaveFails \cup Crashes

\* save: [status, disk].  The writes happen in the order vectors.usearch,
\* metadata.bin, config.json; a failure or a crash leaves the earlier writes.
save(disk, vi, m, fail) ==
    LET d1 == [disk EXCEPT !.vectors = File(vi.index)]
        d2 == [d1 EXCEPT !.metadata = File(Serialize(vi.metadata))]
        d3 == [d2 EXCEPT !.config = File(m)]
    IN CASE fail = "save_dir" -> [status |-> "Io", disk |-> disk]
         [] fail = "save_vectors" -> [status |-> "Index", disk |-> disk]
         [] fail = "save_serialize" -> [status |-> "Serialization", disk |-> d1]
         [] fail = "save_metadata" -> [status |-> "Io", disk |-> d1]
         [] fail = "crash_vectors" -> [status |-> "crash", disk |-> d1]
         [] fail = "save_config" -> [status |-> "Io", disk |-> d2]
         [] fail = "crash_metadata" -> [status |-> "crash", disk |-> d2]
         [] OTHER -> [status |-> "ok", disk |-> d3]

\* load: [status, vi]
load(disk) ==
    IF ~disk.vectors.exists \/ ~disk.metadata.exists
    THEN [status |-> "NoIndex", vi |-> VectorIndex_new("AllMiniLmL6V2")]
    ELSE [status |-> "ok",
          vi |-> [index |-> disk.vectors.data,
                  metadata |-> Deserialize(disk.metadata.data)]]

(***************************************************************************)
(* Indexer.                                                                *)
(***************************************************************************)
\* discover_files: the readable indexable files of the tree, unordered.
discover_files(tree) ==
    {[relative_path |-> p, content |-> tree[p], hash |-> compute_hash(tree[p])] :
        p \in {q \in Paths : tree[q] # Absent /\ should_index_file(q)}}

\* The orders in which a collection can be iterated.
Orders(S) ==
    {s \in [1..Cardinality(S) -> S] :
        \A i, j \in 1..Cardinality(S) : i # j => s[i] # s[j]}

NoStats == [added |-> 0, updated |-> 0, removed |-> 0, unchanged |-> 0]

\* The chunking loop of index_files: [chunks, next_id]
\* The loop done wrongly: the seed skips an id after each file.
RECURSIVE ChunkFiles_SkipSeed(_, _, _, _)
ChunkFiles_SkipSeed(files, k, next_id, all_chunks) ==
    IF k > Len(files) THEN all_chunks
    ELSE LET chunks == chunk_text(files[k].content, files[k].relative_path,
                                  files[k].hash, next_id)
         IN ChunkFiles_SkipSeed(files, k + 1, next_id + Len(chunks) + 1,
                                all_chunks \o chunks)

RECURSIVE ChunkFiles(_, _, _, _)
ChunkFiles(files, k, next_id, all_chunks) ==
    IF k > Len(files) THEN all_chunks
    ELSE LET chunks == chunk_text(files[k].content, files[k].relative_path,
                                  files[k].hash, next_id)
         IN ChunkFiles(files, k + 1, next_id + Len(chunks), all_chunks \o chunks)

Texts(chunks) == [k \in 1..Len(chunks) |-> chunks[k].text]

\* index_files: [status, vi]
index_files(vi, files, m, fail) ==
    IF files = <<>> THEN [status |-> "ok", vi |-> vi]
    ELSE With(ChunkFiles(files, 1, vi.metadata.next_id, <<>>),
              LAMBDA all_chunks :
            IF all_chunks = <<>> THEN [status |-> "ok", vi |-> vi]
            ELSE IF fail = "embed" THEN [status |-> "Embedding", vi |-> vi]
            ELSE add_chunks(vi, all_chunks,
                            embed_batch_with_progress(Texts(all_chunks), m)))

\* The loop of update_index over the discovered files.
RECURSIVE UpdateLoop(_, _, _)
UpdateLoop(files, k, acc) ==
    IF k > Len(files) THEN acc
    ELSE With(get_file_hash(acc.vi, files[k].relative_path), LAMBDA existing :
         LET file == files[k]
             left == acc.files_to_remove \ {file.relative_path}
         IN IF existing # <<>> /\ existing[1] = file.hash
            THEN UpdateLoop(files, k + 1,
                     [acc EXCEPT !.files_to_remove = left,
                                 !.stats.unchanged = @ + 1])
            ELSE IF existing # <<>>
            THEN UpdateLoop(files, k + 1,
                     [acc EXCEPT !.files_to_remove = left,
                                 !.vi = remove_file(@, file.relative_path).vi,
                                 !.stats.updated = @ + 1,
                                 !.files_to_add = Append(@, file)])
            ELSE UpdateLoop(files, k + 1,
                     [acc EXCEPT !.files_to_remove = left,
                                 !.stats.added = @ + 1,
                                 !.files_to_add = Append(@, file)]))

\* RemoveDeleted done wrongly: the deleted files are neither removed nor
\* counted.
RemoveDeleted_Skipped(acc, paths) == acc

\* RemoveDeleted done wrongly: the deleted files are counted and not removed.
RemoveDeleted_CountOnly(acc, paths) ==
    [acc EXCEPT !.stats.removed = @ + Cardinality(paths)]

RECURSIVE RemoveDeleted(_, _)
RemoveDeleted(acc, paths) ==
    IF paths = {} THEN acc
    ELSE LET p == CHOOSE q \in paths : TRUE
         IN RemoveDeleted([acc EXCEPT !.vi = remove_file(@, p).vi,
                                      !.stats.removed = @ + 1],
                          paths \ {p})

\* update_index up to its call of save: [status, vi, stats]
UpdatePhase(vi, files, m, fail) ==
    With(UpdateLoop(files, 1,
                    [vi |-> vi, stats |-> NoStats, files_to_add |-> <<>>,
                     files_to_remove |-> indexed_files(vi)]),
         LAMBDA looped :
    With(RemoveDeleted(looped, looped.files_to_remove), LAMBDA removed :
    With(index_files(removed.vi, removed.files_to_add, m, fail),
         LAMBDA indexed :
    [status |-> indexed.status, vi |-> indexed.vi, stats |-> removed.stats])))

\* update_index: [status, vi, stats, disk]
update_index(vi, disk, files, m, fail) ==
    IF fail = "discover"
    THEN [status |-> "Io", vi |-> vi, stats |-> NoStats, disk |-> disk]
    ELSE With(UpdatePhase(vi, files, m, fail), LAMBDA u :
         LET s == save(disk, u.vi, m, fail)
         IN IF u.status # "ok"
            THEN [status |-> u.status, vi |-> u.vi, stats |-> NoStats,
                  disk |-> disk]
            ELSE IF fail = "crash_update"
            THEN [status |-> "crash", vi |-> u.vi, stats |-> NoStats,
                  disk |-> disk]
            ELSE [status |-> s.status, vi |-> u.vi,
                  stats |-> IF s.status = "ok" THEN u.stats ELSE NoStats,
                  disk |-> s.disk])

\* build_index: [status, vi, disk]
build_index(disk, files, m, fail) ==
    With(index_files(VectorIndex_new(m), files, m, fail), LAMBDA indexed :
    LET index == VectorIndex_new(m)
        s == save(disk, indexed.vi, m, fail)
    IN IF fail = "discover"
       THEN [status |-> "Io", vi |-> index, disk |-> disk]
       ELSE IF files = <<>>
       THEN [status |-> "ok", vi |-> index, disk |-> disk]
       ELSE IF indexed.status # "ok"
       THEN [status |-> indexed.status, vi |-> indexed.vi, disk |-> disk]
       ELSE IF fail = "crash_update"
       THEN [status |-> "crash", vi |-> indexed.vi, disk |-> disk]
       ELSE [status |-> s.status, vi |-> indexed.vi, disk |-> s.disk])

(***************************************************************************)
(* State.                                                                  *)
(*   fs       the file tree: path -> content, or Absent                    *)
(*   disk     the index directory: vectors.usearch, metadata.bin,          *)
(*            config.json                                                  *)
(*   loaded   a process holds a VectorIndex in memory                      *)
(*   vi       that VectorIndex: the ANN store and the metadata             *)
(*   model    config.model of the running Indexer                          *)
(*   result   what the last operation returned (reset by a file edit)      *)
(* History of the Indexer's and the index's operations when they are       *)
(* called directly (the commands below leave it empty):                    *)
(*   synced   the tree as the last successful build / update of vi saw it  *)
(*   retired  history: ids of chunks of vi whose file was deleted from the *)
(*            tree when a successful update ran                            *)
(*   maxIssued  history: the largest id a chunk of vi ever carried, or -1   *)
(*   faulted  an operation was made to fail or the process to crash; a run *)
(*            is followed up to its first fault and the reload after it    *)
(*   ret      what the last call of remove_file, add_chunks, a search,     *)
(*            chunk_text, matches, add_query or clear was given and what   *)
(*            it returned                                                  *)
(* The watch command (src/src/watcher.rs):                                 *)
(*   wpc      where the thread running IndexWatcher::new and watch() is    *)
(*   mutex    the Mutex around the watcher's VectorIndex: free, held by    *)
(*            the watcher, held by a reader, or poisoned                   *)
(*   snapshot the files discovery read in the update that is running       *)
(*   events   the paths named by the debounced batches that are in the     *)
(*            channel and not yet received                                 *)
(*   rpc      where a thread that got the index from index() is            *)
(*   syncs    history: the update_index calls watch() has made             *)
(*   installed  history: watch() installed the filesystem watch            *)
(* The query history (src/src/history.rs):                                 *)
(*   history  the QueryHistory: its queries, oldest first, and the file    *)
(*            history.json it saves them to                                *)
(***************************************************************************)
(* The query history.  The file holds the queries; history_path is not     *)
(* serialized.                                                             *)
(***************************************************************************)
QueryEntry(query, timestamp, result_count, filters) ==
    [query |-> query, timestamp |-> timestamp, result_count |-> result_count,
     filters |-> filters]

\* QueryHistory::load, given the file history.json.
QueryHistory_load(file) ==
    [queries |-> IF file.exists THEN file.data ELSE <<>>, file |-> file]

\* QueryHistory::save
QueryHistory_save(queries) == [queries |-> queries, file |-> File(queries)]

\* The cap done wrongly: the newest entries are the ones dropped.
PopFront_DropNewest(queries) ==
    SubSeq(queries, 1, Min(Len(queries), MAX_HISTORY_SIZE))

\* while self.queries.len() > MAX_HISTORY_SIZE { self.queries.pop_front(); }
RECURSIVE PopFront(_)
PopFront(queries) ==
    IF Len(queries) > MAX_HISTORY_SIZE THEN PopFront(Tail(queries))
    ELSE queries

\* add_query done wrongly: the newest entry is not compared.
add_query_NoCompare(h, query, timestamp, result_count, filters) ==
    QueryHistory_save(
        PopFront(Append(h.queries,
                        QueryEntry(query, timestamp, result_count, filters))))

\* QueryHistory::add_query; timestamp is what the clock says.
add_query(h, query, timestamp, result_count, filters) ==
    IF h.queries # <<>> /\ h.queries[Len(h.queries)].query = query THEN h
    ELSE QueryHistory_save(
             PopFront(Append(h.queries,
                             QueryEntry(query, timestamp, result_count,
                                        filters))))

\* QueryHistory::clear
clear(h) == QueryHistory_save(<<>>)

\* str::contains, on the query strings of the model, which have one
\* character: the empty string and the string itself are contained.
contains(str, part) == part = "" \/ part = str

\* The queries of the entries from the newest to the oldest that contain
\* partial_lower when lower-cased.
RECURSIVE Matching(_, _, _)
Matching(queries, k, partial_lower) ==
    IF k < 1 THEN <<>>
    ELSE IF contains(to_lowercase(queries[k].query), partial_lower)
         THEN <<queries[k].query>> \o Matching(queries, k - 1, partial_lower)
         ELSE Matching(queries, k - 1, partial_lower)

\* Vec::dedup: of each run of equal consecutive elements the first is kept.
RECURSIVE dedup(_)
dedup(list) ==
    IF Len(list) <= 1 THEN list
    ELSE IF list[1] = list[2] THEN dedup(Tail(list))
    ELSE <<list[1]>> \o dedup(Tail(list))

\* QueryHistory::suggest
suggest(h, partial, limit) ==
    Take(dedup(Matching(h.queries, Len(h.queries), to_lowercase(partial))),
         limit)

(***************************************************************************)
VARIABLES fs, disk, loaded, vi, model, result, synced, retired, maxIssued,
          faulted, ret, wpc, mutex, snapshot, events, rpc, syncs, installed,
          history

wvars == <<wpc, mutex, snapshot, events, rpc, syncs, installed>>

vars ==
    <<fs, disk, loaded, vi, model, result, synced, retired, maxIssued, faulted,
      ret, wvars, history>>

NoRet == [op |-> "none"]

NoResult == [op |-> "none", status |-> "none", stats |-> NoStats, runs |-> 0]

NoSync == [valid |-> FALSE, by |-> "none", tree |-> [p \in Paths |-> Absent]]

Init ==
    /\ fs \in [Paths -> FileContents \cup {Absent}]
    /\ disk = EmptyDisk
    /\ loaded = FALSE
    /\ model = "AllMiniLmL6V2"
    /\ vi = VectorIndex_new(model)
    /\ result = NoResult
    /\ synced = NoSync
    /\ retired = {}
    /\ maxIssued = -1
    /\ faulted = FALSE
    /\ ret = NoRet
    /\ wpc = "none"
    /\ mutex = "free"
    /\ snapshot = <<>>
    /\ events = {}
    /\ rpc = "idle"
    /\ syncs = 0
    /\ installed = FALSE
    /\ history = QueryHistory_load(NoFile)

\* A file is created or its content replaced.
WriteFile(p, c) ==
    /\ ~faulted
    /\ fs[p] # c
    /\ fs' = [fs EXCEPT ![p] = c]
    /\ result' = NoResult
    /\ ret' = NoRet
    /\ UNCHANGED <<disk, loaded, vi, model, synced, retired, maxIssued, faulted,
                   wvars>>
    /\ UNCHANGED history

DeleteFile(p) ==
    /\ ~faulted
    /\ fs[p] # Absent
    /\ fs' = [fs EXCEPT ![p] = Absent]
    /\ result' = NoResult
    /\ ret' = NoRet
    /\ UNCHANGED <<disk, loaded, vi, model, synced, retired, maxIssued, faulted,
                   wvars>>
    /\ UNCHANGED history

\* The process is gone, or never got an index.
Unload ==
    /\ loaded' = FALSE
    /\ vi' = VectorIndex_new(model)
    /\ synced' = NoSync
    /\ retired' = {}
    /\ maxIssued' = -1

\* The largest id seen, after the chunks of md are seen.
Seen(sofar, md) ==
    IF md.chunks = <<>> THEN sofar ELSE Max(sofar, SetMax(ChunkIds(md.chunks)))

\* Indexer::update_index on the index in memory.
UpdateIndex(fail) ==
    /\ loaded
    /\ ~faulted
    /\ faulted' = (fail # "none")
    /\ \E files \in Orders(discover_files(fs)) :
       \E r \in {update_index(vi, disk, files, model, fail)} :
         LET gone == {c.id : c \in {d \in ChunkSet(vi.metadata.chunks) :
                                       fs[d.file_path] = Absent}}
         IN /\ r.vi.metadata.next_id <= MaxNextId
            /\ disk' = r.disk
            /\ result' = [op |-> "update_index", status |-> r.status,
                          stats |-> r.stats,
                          runs |-> IF r.status # "ok" THEN 0
                                   ELSE IF synced.valid
                                           /\ synced.by = "update_index"
                                           /\ synced.tree = fs
                                        THEN 2 ELSE 1]
            /\ IF r.status = "crash" THEN Unload
               ELSE /\ loaded' = TRUE
                    /\ vi' = r.vi
                    /\ synced' = IF r.status = "ok"
                                 THEN [valid |-> TRUE, by |-> "update_index",
                                       tree |-> fs]
                                 ELSE NoSync
                    /\ retired' = IF r.status = "ok" THEN retired \cup gone
                                  ELSE retired
                    /\ maxIssued' = Seen(maxIssued, r.vi.metadata)
    /\ ret' = NoRet
    /\ UNCHANGED <<fs, model, wvars>>
    /\ UNCHANGED history

\* Indexer::build_index; the caller keeps the index it returns.
BuildIndex(fail) ==
    /\ ~faulted
    /\ faulted' = (fail # "none")
    /\ \E files \in Orders(discover_files(fs)) :
       \E r \in {build_index(disk, files, model, fail)} :
            /\ r.vi.metadata.next_id <= MaxNextId
            /\ disk' = r.disk
            /\ result' = [op |-> "build_index", status |-> r.status,
                          stats |-> NoStats, runs |-> 0]
            /\ IF r.status # "ok" THEN Unload
               ELSE /\ loaded' = TRUE
                    /\ vi' = r.vi
                    /\ synced' = [valid |-> TRUE, by |-> "build_index",
                                  tree |-> fs]
                    /\ retired' = {}
                    /\ maxIssued' = Seen(-1, r.vi.metadata)
    /\ ret' = NoRet
    /\ UNCHANGED <<fs, model, wvars>>
    /\ UNCHANGED history

\* VectorIndex::load in a fresh process.
LoadIndex ==
    /\ \E r \in {load(disk)} :
          /\ result' = [op |-> "load", status |-> r.status, stats |-> NoStats,
                        runs |-> 0]
          /\ IF r.status # "ok" THEN Unload
             ELSE /\ loaded' = TRUE
                  /\ vi' = r.vi
                  /\ synced' = NoSync
                  /\ retired' = {}
                  /\ maxIssued' = Seen(-1, r.vi.metadata)
    /\ ret' = NoRet
    /\ UNCHANGED <<fs, disk, model, faulted, wvars>>
    /\ UNCHANGED history

\* VectorIndex::remove_file called by the holder of the index.
RemoveFile(p) ==
    /\ loaded
    /\ ~faulted
    /\ vi' = remove_file(vi, p).vi
    /\ result' = [op |-> "remove_file", status |-> "ok", stats |-> NoStats,
                  runs |-> 0]
    /\ synced' = NoSync
    /\ ret' = [op |-> "remove_file", file_path |-> p,
               removed_ids |-> remove_file(vi, p).removed_ids]
    /\ UNCHANGED <<fs, disk, loaded, model, retired, maxIssued, faulted,
                   wvars>>
    /\ UNCHANGED history

\* VectorIndex::add_chunks called by the holder of the index with the chunks
\* of a text, numbered from next_id() as index_files numbers them, and their
\* embeddings; the calls that succeed.
AddChunks(p, c) ==
    /\ loaded
    /\ ~faulted
    /\ \E chunks \in {chunk_text(c, p, compute_hash(c), vi.metadata.next_id)} :
       \E r \in {add_chunks(vi, chunks,
                            embed_batch_with_progress(Texts(chunks), model))} :
          /\ r.status = "ok"
          /\ r.vi.metadata.next_id <= MaxNextId
          /\ vi' = r.vi
          /\ result' = [op |-> "add_chunks", status |-> "ok",
                        stats |-> NoStats, runs |-> 0]
          /\ maxIssued' = Seen(maxIssued, r.vi.metadata)
    /\ synced' = NoSync
    /\ ret' = NoRet
    /\ UNCHANGED <<fs, disk, loaded, model, retired, faulted, wvars>>
    /\ UNCHANGED history

\* VectorIndex::new called by a process that goes on to use the index.
NewIndex ==
    /\ ~loaded
    /\ ~faulted
    /\ loaded' = TRUE
    /\ vi' = VectorIndex_new(model)
    /\ result' = [op |-> "new", status |-> "ok", stats |-> NoStats, runs |-> 0]
    /\ synced' = NoSync
    /\ retired' = {}
    /\ maxIssued' = -1
    /\ ret' = NoRet
    /\ UNCHANGED <<fs, disk, model, faulted, wvars>>
    /\ UNCHANGED history

\* VectorIndex::save called by the holder of the index.
SaveIndex ==
    /\ loaded
    /\ ~faulted
    /\ \E r \in {save(disk, vi, model, "none")} :
          /\ disk' = r.disk
          /\ result' = [op |-> "save", status |-> r.status, stats |-> NoStats,
                        runs |-> 0]
    /\ ret' = NoRet
    /\ UNCHANGED <<fs, loaded, vi, model, synced, retired, maxIssued, faulted,
                   wvars>>
    /\ UNCHANGED history

\* VectorIndex::add_chunks called with the chunks of a text and n embeddings,
\* n other than the number of chunks.
AddChunksMismatch(p, c) ==
    /\ loaded
    /\ ~faulted
    /\ \E chunks \in {chunk_text(c, p, compute_hash(c), vi.metadata.next_id)} :
       \E n \in (0..(Len(chunks) + 1)) \ {Len(chunks)} :
       \E r \in {add_chunks(vi, chunks,
                            embed_batch_with_progress([k \in 1..n |-> "x"],
                                                      model))} :
          /\ r.vi.metadata.next_id <= MaxNextId
          /\ vi' = r.vi
          /\ result' = [op |-> "add_chunks", status |-> r.status,
                        stats |-> NoStats, runs |-> 0]
          /\ ret' = [op |-> "add_chunks", chunks |-> Len(chunks),
                     embeddings |-> n]
          /\ maxIssued' = Seen(maxIssued, r.vi.metadata)
    /\ synced' = NoSync
    /\ UNCHANGED <<fs, disk, loaded, model, retired, faulted, wvars>>
    /\ UNCHANGED history

\* VectorIndex::search called by the holder of the index.
Search(top_k) ==
    /\ loaded
    /\ ~faulted
    /\ \E hits \in AnnSearch(vi, top_k, Distances) :
          ret' = [op |-> "search", top_k |-> top_k,
                  results |-> search(vi, hits)]
    /\ result' = [op |-> "search", status |-> "ok", stats |-> NoStats,
                  runs |-> 0]
    /\ UNCHANGED <<fs, disk, loaded, vi, model, synced, retired, maxIssued,
                   faulted, wvars>>
    /\ UNCHANGED history

(***************************************************************************)
(* The index and watch commands.                                           *)
(***************************************************************************)
\* The models the commands are run with: two of the same dimension.
ConfiguredModels == {"AllMiniLmL6V2", "BgeSmallEnV15"}

\* The file that is edited while the commands run, and what it is edited to.
EditedPaths == {<<"a", "rs">>}

WatchContents == {<<"x">>, <<"x", LF>>}

NoHistory ==
    /\ synced' = NoSync
    /\ retired' = {}
    /\ maxIssued' = -1

Returned(op, status) ==
    [op |-> op, status |-> status, stats |-> NoStats, runs |-> 0]

\* cmd_index: one run of `lgrep index --model m [--force]`, start to exit.
CmdIndex(m, force) ==
    /\ wpc = "none"
    /\ ~faulted
    /\ model' = m
    /\ \E files \in Orders(discover_files(fs)) :
          IF ~force /\ disk.vectors.exists
          THEN \E l \in {load(disk)} :
                 IF l.status # "ok"
                 THEN disk' = disk /\ result' = Returned("load", l.status)
                 ELSE \E r \in {update_index(l.vi, disk, files, m, "none")} :
                        /\ r.vi.metadata.next_id <= MaxNextId
                        /\ disk' = r.disk
                        /\ result' = [Returned("update_index", r.status)
                                         EXCEPT !.stats = r.stats]
          ELSE \E r \in {build_index(disk, files, m, "none")} :
                 /\ r.vi.metadata.next_id <= MaxNextId
                 /\ disk' = r.disk
                 /\ result' = Returned("build_index", r.status)
    /\ loaded' = FALSE
    /\ vi' = VectorIndex_new(m)
    /\ NoHistory
    /\ ret' = NoRet
    /\ UNCHANGED <<fs, faulted, wvars>>
    /\ UNCHANGED history

\* IndexWatcher::new for `lgrep watch --model m`: the index on disk if load
\* succeeds, a built one otherwise.
WatcherNew(m) ==
    /\ wpc = "none"
    /\ ~faulted
    /\ model' = m
    /\ \E l \in {load(disk)} :
          IF l.status = "ok"
          THEN /\ vi' = l.vi
               /\ disk' = disk
               /\ result' = Returned("load", "ok")
          ELSE \E files \in Orders(discover_files(fs)) :
               \E r \in {build_index(disk, files, m, "none")} :
                 /\ r.vi.metadata.next_id <= MaxNextId
                 /\ vi' = r.vi
                 /\ disk' = r.disk
                 /\ result' = Returned("build_index", r.status)
    /\ loaded' = TRUE
    /\ wpc' = "created"
    /\ NoHistory
    /\ ret' = NoRet
    /\ UNCHANGED <<fs, faulted, mutex, snapshot, events, rpc, syncs, installed>>
    /\ UNCHANGED history

\* Mutex::lock done wrongly: it returns whatever the state of the mutex.
Lockable_Always(state) == TRUE

\* Mutex::lock returns when the mutex is free.
Lockable(state) == state = "free"

\* watch(): self.index.lock() for the initial sync.
WatchLock ==
    /\ wpc = "created"
    /\ Lockable(mutex)
    /\ mutex' = "watcher"
    /\ wpc' = "locked"
    /\ UNCHANGED <<fs, disk, loaded, vi, model, result, synced, retired,
                   maxIssued, faulted, ret, snapshot, events, rpc, syncs,
                   installed>>
    /\ UNCHANGED history

\* AfterSync done wrongly: watch() goes on after a failed update_index.
AfterSync_IgnoreError(status) == "synced"

\* Where watch() is after update_index returned: the `?` returns an error.
AfterSync(status) == IF status = "ok" THEN "synced" ELSE "failed"

\* The initial sync's update_index, up to the end of discover_files: the
\* files are read, or discovery fails and watch() returns the error.
WatchDiscover(fail) ==
    /\ wpc = "locked"
    /\ IF fail = "discover"
       THEN /\ wpc' = AfterSync("Io")
            /\ mutex' = "free"
            /\ syncs' = syncs + 1
            /\ result' = Returned("update_index", "Io")
            /\ UNCHANGED snapshot
       ELSE /\ wpc' = "discovered"
            /\ snapshot' \in Orders(discover_files(fs))
            /\ UNCHANGED <<mutex, syncs, result>>
    /\ UNCHANGED <<fs, disk, loaded, vi, model, synced, retired, maxIssued,
                   faulted, ret, events, rpc, installed>>
    /\ UNCHANGED history

\* The rest of the initial sync's update_index, on the files discovery read,
\* and the end of the block that holds the guard.
WatchSync(fail) ==
    /\ wpc = "discovered"
    /\ \E r \in {update_index(vi, disk, snapshot, model, fail)} :
          /\ r.vi.metadata.next_id <= MaxNextId
          /\ vi' = r.vi
          /\ disk' = r.disk
          /\ result' = [Returned("update_index", r.status)
                           EXCEPT !.stats = r.stats]
          /\ wpc' = AfterSync(r.status)
    /\ mutex' = "free"
    /\ syncs' = syncs + 1
    /\ snapshot' = <<>>
    /\ UNCHANGED <<fs, loaded, model, synced, retired, maxIssued, faulted, ret,
                   events, rpc, installed>>
    /\ UNCHANGED history

\* new_debouncer and watcher().watch(root): the watch is installed, or
\* watch() returns a Watch error.
InstallWatch(ok) ==
    /\ wpc = "synced"
    /\ IF ok
       THEN wpc' = "watching" /\ installed' = TRUE /\ UNCHANGED result
       ELSE /\ wpc' = "failed"
            /\ result' = Returned("watch", "Watch")
            /\ UNCHANGED installed
    /\ UNCHANGED <<fs, disk, loaded, vi, model, synced, retired, maxIssued,
                   faulted, ret, mutex, snapshot, events, rpc, syncs>>
    /\ UNCHANGED history

\* The println! of "Index ready": its first argument locks the mutex, and the
\* guard lives to the end of the statement.
PrintLockFirst ==
    /\ wpc = "watching"
    /\ Lockable(mutex)
    /\ mutex' = "watcher"
    /\ wpc' = "printing"
    /\ UNCHANGED <<fs, disk, loaded, vi, model, result, synced, retired,
                   maxIssued, faulted, ret, snapshot, events, rpc, syncs,
                   installed>>
    /\ UNCHANGED history

\* The println!'s second argument locks the mutex the thread already holds:
\* the call does not return; the thread blocks for good, or it panics, which
\* poisons the mutex and ends watch().
PrintLockSecond ==
    /\ wpc = "printing"
    /\ \/ wpc' = "deadlocked" /\ UNCHANGED mutex
       \/ wpc' = "panicked" /\ mutex' = "poisoned"
    /\ UNCHANGED <<fs, disk, loaded, vi, model, result, synced, retired,
                   maxIssued, faulted, ret, snapshot, events, rpc, syncs,
                   installed>>
    /\ UNCHANGED history

\* A thread that got the index from index() locks it to read it.
ReaderLock ==
    /\ wpc # "none"
    /\ rpc = "idle"
    /\ Lockable(mutex)
    /\ mutex' = "reader"
    /\ rpc' = "reading"
    /\ UNCHANGED <<fs, disk, loaded, vi, model, result, synced, retired,
                   maxIssued, faulted, ret, wpc, snapshot, events, syncs,
                   installed>>
    /\ UNCHANGED history

ReaderUnlock ==
    /\ rpc = "reading"
    /\ mutex' = "free"
    /\ rpc' = "idle"
    /\ UNCHANGED <<fs, disk, loaded, vi, model, result, synced, retired,
                   maxIssued, faulted, ret, wpc, snapshot, events, syncs,
                   installed>>
    /\ UNCHANGED history

\* The watch delivers events while watch() is between the installation and
\* its end.
Watching == wpc \in {"watching", "printing", "deadlocked"}

\* A file is written or deleted while the commands run; the debouncer puts
\* the path into a batch when the watch is there.
WatchEdit(p, c) ==
    /\ fs[p] # c
    /\ fs' = [fs EXCEPT ![p] = c]
    /\ events' = IF Watching THEN events \cup {p} ELSE events
    /\ UNCHANGED <<disk, loaded, vi, model, result, synced, retired, maxIssued,
                   faulted, ret, wpc, mutex, snapshot, rpc, syncs, installed>>
    /\ UNCHANGED history

EditTree ==
    \/ \E p \in Paths, c \in FileContents : WriteFile(p, c)
    \/ \E p \in Paths : DeleteFile(p)

\* Every operation; build and update may fail or crash at any point.
Next ==
    \/ EditTree
    \/ \E fail \in FailPoints : UpdateIndex(fail)
    \/ \E fail \in FailPoints : BuildIndex(fail)
    \/ LoadIndex

Spec == Init /\ [][Next]_vars

\* The operations when nothing fails.
NextOk ==
    \/ EditTree
    \/ UpdateIndex("none")
    \/ BuildIndex("none")
    \/ LoadIndex

SpecOk == Init /\ [][NextOk]_vars

\* The texts whose chunks are added: one of no chunk, one of two chunks.
ApiContents == {<<>>, <<"x", LF, "x">>}

\* The contents given to add_chunks where the index is saved or searched.
SearchedContents == {<<"x">>, <<"x", LF, "x">>}

\* The index's own operations and the Indexer's, when nothing fails, over a
\* tree that stays as it is.
NextApi ==
    \/ \E p \in Paths : RemoveFile(p)
    \/ \E p \in Paths, c \in ApiContents : AddChunks(p, c)
    \/ UpdateIndex("none")
    \/ BuildIndex("none")
    \/ LoadIndex

\* Trees with or without a file of two chunks, and with an empty file or a
\* file of one chunk.
InitApi ==
    /\ Init
    /\ fs[<<"a", "rs">>] \in {<<"x", LF, "x">>, Absent}
    /\ fs[<<"b", "py">>] \in {<<>>, <<"x">>}

SpecApi == InitApi /\ [][NextApi]_vars

\* The Vector Index used on its own: a process makes an index and adds and
\* removes chunks; it saves, and a process loads what was saved.  The index
\* is changed until the first save.
NextStore ==
    \/ NewIndex
    \/ disk = EmptyDisk /\ \E p \in Paths : RemoveFile(p)
    \/ disk = EmptyDisk
          /\ \E p \in Paths, c \in SearchedContents \cup {<<>>} :
                AddChunks(p, c)
    \/ disk = EmptyDisk
          /\ \E p \in Paths, c \in SearchedContents : AddChunksMismatch(p, c)
    \/ SaveIndex
    \/ LoadIndex

\* The index and watch commands, run one after the other on a tree that is
\* edited meanwhile; the initial sync of watch() may fail.
WatchFails == {"none", "discover", "embed", "save_metadata"}

NextWatch ==
    \/ \E p \in EditedPaths, c \in WatchContents \cup {Absent} : WatchEdit(p, c)
    \/ \E m \in ConfiguredModels, force \in BOOLEAN : CmdIndex(m, force)
    \/ \E m \in ConfiguredModels : WatcherNew(m)
    \/ WatchLock
    \/ \E fail \in {"none", "discover"} : WatchDiscover(fail)
    \/ \E fail \in WatchFails \ {"discover"} : WatchSync(fail)
    \/ \E ok \in BOOLEAN : InstallWatch(ok)
    \/ PrintLockFirst
    \/ PrintLockSecond
    \/ ReaderLock
    \/ ReaderUnlock

InitWatch ==
    /\ Init
    /\ \A p \in EditedPaths : fs[p] \in WatchContents \cup {Absent}
    /\ \A p \in Paths \ EditedPaths : fs[p] \in {<<"x">>, Absent}

SpecWatch == InitWatch /\ [][NextWatch]_vars

InitStore == Init /\ fs = [p \in Paths |-> Absent]

SpecStore == InitStore /\ [][NextStore]_vars

\* Searches of an index that holds the chunks of one file, added once or
\* several times and removed.  A search leaves the index as it is, so a
\* search straight after a search reaches nothing new.
\* Chunker::chunk_text of a chunker of any sizes on any text.
ChunkText(chunker, text, start_id) ==
    /\ ret = NoRet
    /\ ret' = [op |-> "chunk_text", chunker |-> chunker, text |-> text,
               start_id |-> start_id,
               chunks |-> Chunker_chunk_text(chunker, text, <<"a", "rs">>,
                                             compute_hash(text), start_id)]
    /\ UNCHANGED <<fs, disk, loaded, vi, model, result, synced, retired,
                   maxIssued, faulted, wvars>>
    /\ UNCHANGED history

\* Searcher::search_with_filter; the hits are the ANN store's answer.
SearchWithFilter(top_k, filter) ==
    /\ loaded
    /\ ~faulted
    /\ ret = NoRet
    /\ \E hits \in AnnSearch(vi, Overfetch(top_k), QueryDistances) :
          ret' = [op |-> "search_with_filter", top_k |-> top_k,
                  filter |-> filter, hits |-> hits,
                  results |-> search_with_filter(vi, hits, top_k, filter)]
    /\ result' = [op |-> "search", status |-> "ok", stats |-> NoStats,
                  runs |-> 0]
    /\ UNCHANGED <<fs, disk, loaded, vi, model, synced, retired, maxIssued,
                   faulted, wvars>>
    /\ UNCHANGED history

\* Searcher::hybrid_search
HybridSearch(keyword, top_k, filter) ==
    /\ loaded
    /\ ~faulted
    /\ ret = NoRet
    /\ \E hits \in AnnSearch(vi, Overfetch(top_k), QueryDistances) :
       \E r \in {hybrid_search(vi, hits, keyword, top_k, filter)} :
          /\ ret' = [op |-> "hybrid_search", keyword |-> keyword,
                     top_k |-> top_k, filter |-> filter, hits |-> hits,
                     status |-> r.status, results |-> r.results]
          /\ result' = [op |-> "search", status |-> r.status,
                        stats |-> NoStats, runs |-> 0]
    /\ UNCHANGED <<fs, disk, loaded, vi, model, synced, retired, maxIssued,
                   faulted, wvars>>
    /\ UNCHANGED history

\* QueryHistory::add_query
AddQuery(query, timestamp, result_count, filters) ==
    /\ history' = add_query(history, query, timestamp, result_count, filters)
    /\ ret' = [op |-> "add_query", query |-> query, timestamp |-> timestamp,
               result_count |-> result_count, filters |-> filters,
               len |-> Len(history.queries),
               newest |-> IF history.queries = <<>> THEN None
                          ELSE Some(history.queries[Len(history.queries)].query)]
    /\ UNCHANGED <<fs, disk, loaded, vi, model, result, synced, retired,
                   maxIssued, faulted, wvars>>

\* Embedder::embed_batch_with_progress
EmbedBatch(m, texts, batch_size, fail_at) ==
    /\ ret = NoRet
    /\ \E r \in {Embedder_embed_batch_with_progress(m, texts, batch_size,
                                                   fail_at)} :
          ret' = [op |-> "embed_batch_with_progress", texts |-> texts,
                  batch_size |-> batch_size, status |-> r.status,
                  embeddings |-> r.embeddings, batches |-> r.batches,
                  progress |-> r.progress]
    /\ UNCHANGED <<fs, disk, loaded, vi, model, result, synced, retired,
                   maxIssued, faulted, wvars, history>>

\* QueryHistory::suggest
Suggest(partial, limit) ==
    /\ ret' = [op |-> "suggest", partial |-> partial, limit |-> limit,
               suggestions |-> suggest(history, partial, limit)]
    /\ UNCHANGED <<fs, disk, loaded, vi, model, result, synced, retired,
                   maxIssued, faulted, wvars, history>>

\* QueryHistory::clear
ClearHistory ==
    /\ history' = clear(history)
    /\ ret' = [op |-> "clear"]
    /\ UNCHANGED <<fs, disk, loaded, vi, model, result, synced, retired,
                   maxIssued, faulted, wvars>>

\* SearchFilter::matches of any filter on any chunk and score.
Matches(filter, chunk, score) ==
    /\ ret = NoRet
    /\ ret' = [op |-> "matches", filter |-> filter, chunk |-> chunk,
               score |-> score, result |-> matches(filter, chunk, score)]
    /\ UNCHANGED <<fs, disk, loaded, vi, model, result, synced, retired,
                   maxIssued, faulted, wvars>>
    /\ UNCHANGED history

SearchedPaths == {<<"a", "rs">>}

NextSearch ==
    \/ NewIndex
    \/ \E p \in SearchedPaths : RemoveFile(p)
    \/ \E p \in SearchedPaths, c \in SearchedContents : AddChunks(p, c)
    \/ ret.op # "search" /\ \E top_k \in 0..MaxTopK : Search(top_k)

SpecSearch == InitStore /\ [][NextSearch]_vars

(***************************************************************************)
(* Filtered and keyword searches of an index of at most one chunk for each *)
(* path: a chunk "x" or an empty one.                                      *)
(***************************************************************************)
QueryContents == {<<"x">>, <<LF>>}

QueryFilters ==
    {None} \cup
    {Some(f) : f \in [extensions : {None, Some(<<"RS">>)},
                      languages : {None},
                      path_pattern : {None},
                      exclude_pattern : {None, Some("(")},
                      min_score : {None, Some(1)},
                      max_results : {None, Some(1)}]}

NextQuery ==
    \/ NewIndex
    \/ \E p \in Paths, c \in QueryContents :
          p \notin indexed_files(vi) /\ AddChunks(p, c)
    \/ \E top_k \in 0..MaxTopK, filter \in QueryFilters :
          SearchWithFilter(top_k, filter)
    \/ \E keyword \in {None, Some("x"), Some("(")}, top_k \in 0..MaxTopK,
          filter \in QueryFilters :
          HybridSearch(keyword, top_k, filter)

SpecQuery == InitStore /\ [][NextQuery]_vars

(***************************************************************************)
(* The query history alone, from the empty history.                        *)
(***************************************************************************)
NextHistory ==
    \/ \E query \in {"q", "r"}, timestamp \in {0, 1}, result_count \in {3, 5} :
          AddQuery(query, timestamp, result_count, None)
    \/ ClearHistory
    \/ \E partial \in {"", "Q", "r"}, limit \in 0..MAX_HISTORY_SIZE :
          Suggest(partial, limit)

SpecHistory == InitStore /\ [][NextHistory]_vars

(***************************************************************************)
(* The filter alone: one call of matches, by every filter made of the      *)
(* clauses below, on chunks like the ones of the filter's tests.           *)
(***************************************************************************)
Patterns == {None, Some("a"), Some("(")}

Filters ==
    [extensions : {None, Some(<<>>), Some(<<"rs">>), Some(<<"RS", "py">>)},
     languages : {None, Some(<<"Rust">>), Some(<<"python", "rust">>)},
     path_pattern : Patterns,
     exclude_pattern : Patterns,
     min_score : {None, Some(0), Some(1)},
     max_results : {None}]

create_test_chunk ==
    [id : {0}, text : {<<"x">>},
     file_path : {<<"a", "rs">>, <<"b", "RS">>, <<"a">>},
     start_line : {1}, end_line : {1}, file_hash : {0},
     language : {"rust", "python", "none"}]

Scores == {1 - d : d \in Distances}

NextFilter ==
    \E filter \in Filters, chunk \in create_test_chunk, score \in Scores :
        Matches(filter, chunk, score)

SpecFilter == InitStore /\ [][NextFilter]_vars

(***************************************************************************)
(* The chunker alone: one call of chunk_text, on every text of at most     *)
(* MaxTextLen characters, by every chunker of the sizes below.             *)
(***************************************************************************)
ChunkedTexts == UNION {[1..n -> {"x", LF}] : n \in 0..MaxTextLen}

Chunkers ==
    {Chunker_new(chunk_size, overlap) :
        chunk_size \in 0..MaxChunkSize, overlap \in 0..MaxOverlap}

NextChunk ==
    \E chunker \in Chunkers, text \in ChunkedTexts, start_id \in {0, MaxNextId} :
        ChunkText(chunker, text, start_id)

SpecChunk == InitStore /\ [][NextChunk]_vars

(***************************************************************************)
(* Properties.                                                             *)
(***************************************************************************)
UpdateOk == result.op = "update_index" /\ result.status = "ok"

Discovered == {f.relative_path : f \in discover_files(fs)}

Chunks == ChunkSet(vi.metadata.chunks)

\* C1: after a successful update_index the indexed files are the discovered
\* files, each with the SHA-256 of the content discovery read, whatever the
\* tree (a file that produces no chunk included).
C1_IndexReflectsTree ==
    UpdateOk =>
        /\ indexed_files(vi) = Discovered
        /\ \A p \in Discovered : get_file_hash(vi, p) = <<compute_hash(fs[p])>>

\* C2: update_index run again after a successful update_index, with no change
\* of the tree in between, returns added 0, updated 0, removed 0 and
\* unchanged = the index's file count.
C2_SecondUpdateUnchanged ==
    (UpdateOk /\ result.runs = 2) =>
        result.stats = [added |-> 0, updated |-> 0, removed |-> 0,
                        unchanged |-> file_count(vi)]

\* The tree differs from the tree of the last successful build / update in
\* the content of the indexed file p and in nothing else.
OnlyEdited(p) ==
    /\ loaded /\ synced.valid
    /\ p \in indexed_files(vi)
    /\ fs[p] # Absent /\ synced.tree[p] # Absent /\ fs[p] # synced.tree[p]
    /\ \A q \in Paths \ {p} : fs[q] = synced.tree[q]

\* C3: when one indexed file was edited and nothing else changed, a
\* successful update_index returns added 0, updated 1, removed 0 and
\* unchanged = the number of other files, and keeps every chunk of every
\* other file as it was (id, text, line range, file_hash).
C3_ChangeResponse ==
    [][\A p \in Paths :
         (OnlyEdited(p) /\ UpdateOk') =>
            /\ result'.stats = [added |-> 0, updated |-> 1, removed |-> 0,
                                unchanged |-> Cardinality(Discovered) - 1]
            /\ \A c \in Chunks : c.file_path # p => c \in Chunks']_vars

\* C4: when an indexed file is gone from the tree, a successful update_index
\* reports removed >= 1 and leaves the index without the path, without its
\* chunks and without their vectors; and no search afterwards returns a chunk
\* under an id that belonged to a file deleted that way.
C4_Deletion ==
    /\ [][\A p \in Paths :
            (loaded /\ p \in indexed_files(vi) /\ fs[p] = Absent /\ UpdateOk') =>
               /\ result'.stats.removed >= 1
               /\ p \notin indexed_files(vi')
               /\ \A c \in Chunks' : c.file_path # p
               /\ SeqRange(IdsOf(vi.metadata.chunks, p)) \cap DOMAIN vi'.index
                      = {}]_vars
    /\ [](loaded =>
            \A hits \in AnnSearch(vi, MaxTopK, {0}) :
                \A r \in SeqRange(search(vi, hits)) : r.chunk.id \notin retired)

\* C4 witness: a successful update has removed a deleted file, and the index
\* still holds chunks a search can return.
C4_Witness ==
    /\ UpdateOk /\ result.stats.removed >= 1
    /\ retired # {}
    /\ \E hits \in AnnSearch(vi, MaxTopK, {0}) : search(vi, hits) # <<>>

\* C5: the keys of the ANN store are the ids of the chunks, and every stored
\* vector has the metadata's dimension.
C5_StoreMatchesChunks ==
    loaded =>
        /\ DOMAIN vi.index = ChunkIds(vi.metadata.chunks)
        /\ \A k \in DOMAIN vi.index : vi.index[k].len = vi.metadata.dimension

\* C5 witness: remove_file has run on an index that still holds vectors, after
\* ids were given up (the ids no longer start at 0).
C5_Witness ==
    /\ loaded /\ result.op = "remove_file"
    /\ DOMAIN vi.index # {}
    /\ 0 \notin DOMAIN vi.index

\* C6: every chunk's file_path has a stored hash, equal to the chunk's
\* file_hash.
C6_HashConsistency ==
    loaded =>
        \A c \in Chunks :
            /\ c.file_path \in DOMAIN vi.metadata.file_hashes
            /\ vi.metadata.file_hashes[c.file_path] = c.file_hash

\* C6 witness: an update has re-chunked a changed file.
C6_Witness == UpdateOk /\ result.stats.updated >= 1 /\ Chunks # {}

\* C7: chunk ids are pairwise distinct and next_id is greater than each.
C7_IdsUniqueBelowNext ==
    loaded =>
        /\ \A i, j \in 1..Len(vi.metadata.chunks) :
              i # j => vi.metadata.chunks[i].id # vi.metadata.chunks[j].id
        /\ \A c \in Chunks : c.id < vi.metadata.next_id

\* C7 witness: several chunks, with a gap left by removed ones.
C7_Witness ==
    /\ loaded /\ Len(vi.metadata.chunks) >= 2
    /\ vi.metadata.next_id > Len(vi.metadata.chunks)

\* C8: across update_index calls next_id never decreases, and a chunk that
\* an update adds gets an id larger than every id a chunk of the index ever
\* carried.
C8_IdsMonotonic ==
    [][(loaded /\ loaded' /\ result'.op = "update_index") =>
          /\ vi'.metadata.next_id >= vi.metadata.next_id
          /\ \A c \in Chunks' \ Chunks : c.id > maxIssued]_vars

\* C8 witness: the file holding the highest ids was deleted, and a later
\* update assigned ids.
C8_Witness ==
    /\ UpdateOk /\ retired # {}
    /\ Chunks # {}
    /\ \A c \in Chunks : c.id > SetMax(retired)
    /\ \E c \in Chunks : c.id = SetMax(retired) + 1

\* C9: a crash at any step of update_index before save() has completed leaves
\* the three files of the index directory as they were.
C9_CrashLeavesDisk ==
    [][(result'.op = "update_index" /\ result'.status = "crash") =>
          disk' = disk]_vars

\* C10: a build_index or update_index that returns an Io, Serialization or
\* Embedding error leaves the persisted index files as they were.
C10_ErrorLeavesDisk ==
    [][(result'.op \in {"build_index", "update_index"}
          /\ result'.status \in {"Io", "Serialization", "Embedding"}) =>
          disk' = disk]_vars

\* C11: build_index persists what it built, whatever the discovered file set
\* (the empty set included): after a successful build_index, load() of the
\* index directory succeeds and yields the index build_index returned.
C11_BuildPersists ==
    (result.op = "build_index" /\ result.status = "ok") =>
        /\ load(disk).status = "ok"
        /\ load(disk).vi = vi

C14_MismatchRejected ==
    [][(ret'.op = "add_chunks" /\ ret'.chunks # ret'.embeddings) =>
          /\ result'.status = "Index"
          /\ vi' = vi]_vars

\* C14 witness: the call had chunks and too few embeddings, on an index that
\* holds chunks.
C14_Witness ==
    /\ ret.op = "add_chunks" /\ ret.chunks > ret.embeddings
    /\ Chunks # {}

\* C15: remove_file(path) removes the chunks of path, their vectors and the
\* hash entry of path, and returns their ids; the chunks, vectors and hash
\* entries of the other paths and next_id stay; for a path without chunks it
\* returns the empty list and changes nothing.
C15_RemoveFileFrame ==
    [][ret'.op = "remove_file" =>
          LET p == ret'.file_path
              old == vi.metadata
              new == vi'.metadata
              gone == {c.id : c \in {d \in ChunkSet(old.chunks) :
                                        d.file_path = p}}
          IN /\ SeqRange(ret'.removed_ids) = gone
             /\ Len(ret'.removed_ids) = Cardinality(gone)
             /\ new.chunks = SelectSeq(old.chunks, LAMBDA c : c.file_path # p)
             /\ DOMAIN vi'.index = DOMAIN vi.index \ gone
             /\ \A k \in DOMAIN vi'.index : vi'.index[k] = vi.index[k]
             /\ DOMAIN new.file_hashes = DOMAIN old.file_hashes \ {p}
             /\ \A q \in DOMAIN new.file_hashes :
                   new.file_hashes[q] = old.file_hashes[q]
             /\ new.next_id = old.next_id
             /\ gone = {} => (ret'.removed_ids = <<>> /\ vi' = vi)]_vars

\* C15 witness: remove_file removed the chunks of one file and another
\* file's chunks are still there.
C15_Witness ==
    /\ ret.op = "remove_file" /\ ret.removed_ids # <<>>
    /\ Chunks # {}

\* C16: search returns the empty list when the store is empty; otherwise at
\* most top_k results, in order of non-increasing score, each with a chunk
\* that is in metadata.chunks.
C16_SearchResults ==
    ret.op = "search" =>
        /\ DOMAIN vi.index = {} => ret.results = <<>>
        /\ Len(ret.results) <= ret.top_k
        /\ \A i \in 1..(Len(ret.results) - 1) :
              ret.results[i].score >= ret.results[i + 1].score
        /\ \A r \in SeqRange(ret.results) : r.chunk \in Chunks

\* C16 witness: a search returned two results of different scores.
C16_Witness ==
    /\ ret.op = "search" /\ Len(ret.results) = 2
    /\ ret.results[1].score > ret.results[2].score

\* C12: no in-place model migration: in every saved index all the vectors
\* were produced by the model metadata.model_name names, and config.json
\* names that model.
C12_NoModelMigration ==
    (disk.vectors.exists /\ disk.metadata.exists /\ disk.config.exists) =>
        LET md == Deserialize(disk.metadata.data)
        IN /\ \A k \in DOMAIN disk.vectors.data :
                 disk.vectors.data[k].model = md.model_name
           /\ model_name(disk.config.data) = md.model_name

\* The watcher's thread is inside an update_index on the shared index.
Mutating == wpc \in {"locked", "discovered"}

\* C17: every update_index of the watcher runs with the index mutex held, and
\* so does every access of a thread that got the index from index(): there
\* is one holder at a time, the shared index changes only under the
\* watcher's lock, and no reader reads during an update.
C17_MutualExclusion ==
    /\ [](Mutating => mutex = "watcher")
    /\ [](rpc = "reading" => mutex = "reader")
    /\ [](~(Mutating /\ rpc = "reading"))
    /\ [][(wpc # "none" /\ (vi' # vi \/ syncs' # syncs)) =>
             (mutex = "watcher" /\ rpc = "idle")]_vars

\* C17 witness: the initial sync has changed the index, and a reader holds
\* the lock after it.
C17_Witness ==
    /\ syncs = 1 /\ result.op = "update_index" /\ result.status = "ok"
    /\ result.stats.updated + result.stats.added + result.stats.removed >= 1
    /\ rpc = "reading"

\* No step of the watcher's thread is left and no batch waits in the channel.
WatcherAtRest == wpc = "deadlocked" /\ events = {}

\* C18: an edit made while an update runs is picked up by a later update
\* cycle: when the watcher has nothing left to do and no batch waits, the
\* index holds every file of the tree with the hash of its content.
C18_EditsPickedUp ==
    WatcherAtRest =>
        /\ indexed_files(vi) = Discovered
        /\ \A p \in Discovered : get_file_hash(vi, p) = <<compute_hash(fs[p])>>

\* C19: watch() makes one update_index, the initial sync, under the mutex and
\* before the watch is installed; the watch is installed only after that
\* update succeeded, and a failed one makes watch() return.
C19_InitialSync ==
    /\ [](syncs <= 1)
    /\ [](installed =>
            (syncs = 1 /\ result.op = "update_index" /\ result.status = "ok"))
    /\ []((syncs = 1 /\ result.op = "update_index" /\ result.status # "ok") =>
            (wpc = "failed" /\ ~installed /\ events = {}))
    /\ [][syncs' # syncs =>
             (mutex = "watcher" /\ ~installed /\ ~installed')]_vars

\* C19 witness: the watch was installed after an initial sync that changed
\* the index.
C19_Witness ==
    /\ installed /\ syncs = 1
    /\ result.stats.added + result.stats.updated >= 1
    /\ events # {}

\* C20: process_events and watch() return Ok when the event channel closes:
\* watch() gets to its event loop, its thread does not come to a stop between
\* the installation of the watch and process_events.
C20_WatchReachesLoop == wpc \notin {"deadlocked", "panicked"}

\* Calls of embed_batch_with_progress on texts "s" and "t", of which any
\* slice's embed_batch may fail.
EmbeddedTexts ==
    UNION {[1..n -> {"s", "t"}] : n \in 0..MaxTexts}

NextEmbed ==
    \E texts \in EmbeddedTexts, batch_size \in 0..MaxBatchSize,
       fail_at \in 0..MaxTexts :
          EmbedBatch("AllMiniLmL6V2", texts, batch_size, fail_at)

SpecEmbed == InitStore /\ [][NextEmbed]_vars

(***************************************************************************)
(* The chunker.  Chunked holds after a call of chunk_text; SourceLines are *)
(* the lines of the text it was given and Emitted the chunks it returned.  *)
(***************************************************************************)
Chunked == ret.op = "chunk_text"

SourceLines == Lines(ret.text)

Emitted == ret.chunks

\* str::split('\n'): the lines of a chunk's text, an empty last one included.
RECURSIVE SplitFrom(_, _, _, _)
SplitFrom(text, i, cur, acc) ==
    IF i > Len(text) THEN Append(acc, cur)
    ELSE IF text[i] = LF THEN SplitFrom(text, i + 1, <<>>, Append(acc, cur))
    ELSE SplitFrom(text, i + 1, Append(cur, text[i]), acc)

TextLines(text) == SplitFrom(text, 1, <<>>, <<>>)

\* C21: for every text of n >= 1 lines and every chunk_size and overlap, the
\* line ranges [start_line, end_line] of the chunks together contain every
\* line number 1..n, and the text of every source line is a line of some
\* chunk's text.
C21_Coverage ==
    Chunked =>
        \A k \in 1..Len(SourceLines) :
            /\ \E j \in 1..Len(Emitted) :
                  Emitted[j].start_line <= k /\ k <= Emitted[j].end_line
            /\ \E j \in 1..Len(Emitted) :
                  \E l \in 1..Len(TextLines(Emitted[j].text)) :
                      TextLines(Emitted[j].text)[l] = SourceLines[k]

C21_Witness ==
    /\ Chunked
    /\ Len(SourceLines) >= 3
    /\ Len(Emitted) >= 2
    /\ ret.chunker.overlap > 0

\* C22: every chunk of a text of n lines has 1 <= start_line <= end_line <= n
\* and its text is the source lines start_line..end_line joined by single
\* line feeds, the first chunk and the chunks emitted after an overlap tail
\* was retained alike.
C22_LineRanges ==
    Chunked =>
        \A j \in 1..Len(Emitted) :
            /\ 1 <= Emitted[j].start_line
            /\ Emitted[j].start_line <= Emitted[j].end_line
            /\ Emitted[j].end_line <= Len(SourceLines)
            /\ Emitted[j].text =
                  Join(SubSeq(SourceLines, Emitted[j].start_line,
                              Emitted[j].end_line))

\* C23: with overlap > 0, consecutive chunks have line ranges that share a
\* line: the later chunk starts at or before the end of the earlier one.
C23_RangesOverlap ==
    (Chunked /\ ret.chunker.overlap > 0) =>
        \A j \in 1..(Len(Emitted) - 1) :
            Emitted[j + 1].start_line <= Emitted[j].end_line

\* The lines of chunk j that chunk_text retains as the start of chunk j + 1.
Retained(j) ==
    LET buf == TextLines(Emitted[j].text)
        keep == Min(calculate_overlap_lines(ret.chunker.overlap, buf), Len(buf))
    IN SubSeq(buf, Len(buf) - keep + 1, Len(buf))

IsPrefix(s, t) == Len(s) <= Len(t) /\ SubSeq(t, 1, Len(s)) = s

\* C24, as stated: the lines retained from a chunk as the start of the next
\* total no more than overlap bytes, each counted with its separator.
C24_RetainedWithinOverlap ==
    Chunked =>
        \A j \in 1..(Len(Emitted) - 1) :
            SizeOf(Retained(j)) <= ret.chunker.overlap

\* C24, amended: the next chunk starts with the retained lines, and they total
\* no more than overlap bytes unless they are the single last line of the
\* earlier chunk, which is retained whatever its length.
C24_RetainedBound ==
    Chunked =>
        \A j \in 1..(Len(Emitted) - 1) :
            /\ IsPrefix(Retained(j), TextLines(Emitted[j + 1].text))
            /\ Len(Retained(j)) < Len(TextLines(Emitted[j + 1].text))
            /\ \/ SizeOf(Retained(j)) <= ret.chunker.overlap
               \/ Len(Retained(j)) = 1

C24_Witness ==
    /\ Chunked
    /\ \E j \in 1..(Len(Emitted) - 1) :
          /\ Len(Retained(j)) >= 2
          /\ SizeOf(Retained(j)) = ret.chunker.overlap
    /\ \E j \in 1..(Len(Emitted) - 1) : Len(Retained(j)) = 1

(***************************************************************************)
(* Chunk ids of a batch.  Batch(old, new) is the batch that index_files    *)
(* added when the index went from old to new: the chunks from the seed on. *)
(***************************************************************************)
Batch(seed, new) == SelectSeq(new.metadata.chunks, LAMBDA c : c.id >= seed)

ConsecutiveFrom(seed, batch) ==
    \A k \in 1..Len(batch) :
        /\ batch[k].id = seed + k - 1
        /\ (k = 1 \/ batch[k].file_path # batch[k - 1].file_path)
              => batch[k].start_line = 1

\* C25: chunk_text gives its chunks the ids start_id, start_id + 1, ... in the
\* order it emits them and its first chunk starts at line 1; index_files
\* advances its seed by the number of chunks of each file, so the chunks of
\* one batch have consecutive ids from the index's next_id on.
C25_BatchIds ==
    [][/\ (result'.op = "update_index" /\ result'.status = "ok")
            => ConsecutiveFrom(vi.metadata.next_id,
                               Batch(vi.metadata.next_id, vi'))
       /\ (result'.op = "build_index" /\ result'.status = "ok")
            => ConsecutiveFrom(0, Batch(0, vi'))]_vars

C25_Witness ==
    /\ result.op = "update_index"
    /\ result.status = "ok"
    /\ \E j \in 2..(Len(vi.metadata.chunks) - 1) :
          /\ vi.metadata.chunks[j].id > 1
          /\ vi.metadata.chunks[j].id = vi.metadata.chunks[j - 1].id + 1
          /\ vi.metadata.chunks[j].file_path
                = vi.metadata.chunks[j - 1].file_path
          /\ vi.metadata.chunks[j + 1].id = vi.metadata.chunks[j].id + 1
          /\ vi.metadata.chunks[j + 1].file_path
                # vi.metadata.chunks[j].file_path

\* C26: a text whose lines total at most chunk_size bytes, each counted with
\* its line feed, gives exactly one chunk, from line 1 to the last line, whose
\* text is the lines joined by line feeds; the empty text gives no chunk,
\* whatever the sizes.
C26_SmallText ==
    Chunked =>
        /\ (SourceLines # <<>> /\ SizeOf(SourceLines) <= ret.chunker.chunk_size)
              => /\ Len(Emitted) = 1
                 /\ Emitted[1].start_line = 1
                 /\ Emitted[1].end_line = Len(SourceLines)
                 /\ Emitted[1].text = Join(SourceLines)
        /\ ret.text = <<>> => Emitted = <<>>

C26_Witness ==
    /\ Chunked
    /\ Len(SourceLines) >= 2
    /\ SizeOf(SourceLines) = ret.chunker.chunk_size
    /\ Len(Emitted) = 1

(***************************************************************************)
(* The filter.                                                             *)
(***************************************************************************)
Matched == ret.op = "matches"

\* C27: matches is true exactly when every clause that is set holds: the
\* score is at least min_score; the chunk has an extension which, lower-cased,
\* is one of the lower-cased extensions; the chunk has a language which,
\* lower-cased, is one of the lower-cased languages; path_pattern matches the
\* path; exclude_pattern does not.  A pattern that does not compile and a
\* clause that is not set constrain nothing.
C27_Matches ==
    Matched =>
        LET f == ret.filter
            path == ret.chunk.file_path
            Compiles(pattern) == pattern # "("
            Among(list, str) ==
                \E k \in 1..Len(list) : to_lowercase(list[k]) = to_lowercase(str)
        IN ret.result <=>
             /\ f.min_score.some => ret.score >= f.min_score.value
             /\ f.extensions.some
                   => Len(path) >= 2 /\ Among(f.extensions.value, path[2])
             /\ f.languages.some
                   => /\ ret.chunk.language # "none"
                      /\ Among(f.languages.value, ret.chunk.language)
             /\ (f.path_pattern.some /\ Compiles(f.path_pattern.value))
                   => f.path_pattern.value \in {path[k] : k \in 1..Len(path)}
             /\ (f.exclude_pattern.some /\ Compiles(f.exclude_pattern.value))
                   => f.exclude_pattern.value
                        \notin {path[k] : k \in 1..Len(path)}

C27_Witness ==
    /\ Matched
    /\ ret.result
    /\ ret.filter.extensions = Some(<<"RS", "py">>)
    /\ ret.filter.languages = Some(<<"Rust">>)
    /\ ret.filter.path_pattern = Some("(")
    /\ ret.filter.exclude_pattern = Some("a")
    /\ ret.filter.min_score = Some(1)
    /\ ret.chunk.file_path = <<"b", "RS">>

(***************************************************************************)
(* The searcher.  Hit(id) is the hit of the ANN store for the chunk id.    *)
(***************************************************************************)
Descending(results) ==
    \A k \in 1..(Len(results) - 1) : results[k].score >= results[k + 1].score

Hit(id) == CHOOSE h \in {ret.hits[k] : k \in 1..Len(ret.hits)} : h.key = id

\* The hits that have a chunk record and satisfy Ok(chunk, score).
HitsThat(Ok(_, _)) ==
    {k \in 1..Len(ret.hits) :
        \E c \in ChunkSet(vi.metadata.chunks) :
            c.id = ret.hits[k].key /\ Ok(c, 1 - ret.hits[k].distance)}

\* C28: search_with_filter returns only results that the filter matches, by
\* descending score, and as many of the matching hits as the cap allows: top_k,
\* or filter.max_results when it is set.
C28_FilteredSearch ==
    (ret.op = "search_with_filter" /\ ret.filter.some) =>
        LET cap == IF ret.filter.value.max_results.some
                   THEN ret.filter.value.max_results.value
                   ELSE ret.top_k
            Ok(c, score) == matches(ret.filter.value, c, score)
        IN /\ \A k \in 1..Len(ret.results) :
                 /\ Ok(ret.results[k].chunk, ret.results[k].score)
                 /\ ret.results[k].chunk \in ChunkSet(vi.metadata.chunks)
                 /\ ret.results[k].score = 1 - Hit(ret.results[k].chunk.id).distance
           /\ Descending(ret.results)
           /\ Len(ret.results) = Min(cap, Cardinality(HitsThat(Ok)))

C28_Witness ==
    /\ ret.op = "search_with_filter"
    /\ ret.filter.some
    /\ ret.filter.value.extensions = Some(<<"RS">>)
    /\ ret.filter.value.max_results = None
    /\ ret.top_k = 1
    /\ Len(ret.hits) = 2
    /\ Len(ret.results) = 1
    /\ \E k \in 1..2 : 1 - ret.hits[k].distance > ret.results[1].score

\* C29: the keyword of hybrid_search is a hard gate.  With a keyword that
\* compiles, the text of every returned chunk matches it and the results are
\* hits with their semantic scores, by descending score; with a keyword that
\* does not compile the call returns an error, never results.
C29_KeywordGate ==
    (ret.op = "hybrid_search" /\ ret.keyword.some) =>
        IF ret.keyword.value = "("
        THEN ret.status # "ok" /\ ret.results = <<>>
        ELSE /\ ret.status = "ok"
             /\ \A k \in 1..Len(ret.results) :
                   /\ \E l \in 1..Len(ret.results[k].chunk.text) :
                         ret.results[k].chunk.text[l] = ret.keyword.value
                   /\ ret.results[k].chunk \in ChunkSet(vi.metadata.chunks)
                   /\ ret.results[k].score
                         = 1 - Hit(ret.results[k].chunk.id).distance
             /\ Descending(ret.results)

C29_Witness ==
    /\ ret.op = "hybrid_search"
    /\ ret.keyword = Some("x")
    /\ Len(ret.hits) = 2
    /\ Len(ret.results) = 1
    /\ ret.top_k = 2
    /\ ret.filter = None

(***************************************************************************)
(* The query history.                                                      *)
(***************************************************************************)
NoAdjacentDuplicates(queries) ==
    \A k \in 1..(Len(queries) - 1) : queries[k].query # queries[k + 1].query

\* C30: add_query of the query of the newest entry adds no entry and leaves
\* the length and the entries as they were; so after any add_query and clear
\* calls from the empty history no two adjacent entries have the same query.
C30_Coalesced ==
    [][/\ (/\ ret'.op = "add_query"
           /\ history.queries # <<>>
           /\ history.queries[Len(history.queries)].query = ret'.query)
          => history'.queries = history.queries
       /\ NoAdjacentDuplicates(history'.queries)]_vars

C30_Witness ==
    /\ ret.op = "add_query"
    /\ Len(history.queries) = 2
    /\ history.queries[2].query = ret.query
    /\ history.queries[2].result_count # ret.result_count

\* The entry that the add_query call recorded in ret would add.
Offered(r) == QueryEntry(r.query, r.timestamp, r.result_count, r.filters)

\* C31: the history never holds more than MAX_HISTORY_SIZE entries, newest
\* last; an accepted entry is appended and, over the cap, the oldest entries
\* are evicted: the history is the newest MAX_HISTORY_SIZE of the accepted
\* entries, in the order they were accepted.
C31_Capped ==
    [][ret'.op = "add_query" =>
          LET all == Append(history.queries, Offered(ret'))
              accepted == \/ history.queries = <<>>
                          \/ history.queries[Len(history.queries)].query
                                # ret'.query
              kept == Min(MAX_HISTORY_SIZE, Len(all))
          IN /\ Len(history'.queries) <= MAX_HISTORY_SIZE
             /\ accepted =>
                   history'.queries = SubSeq(all, Len(all) - kept + 1, Len(all))]_vars

C31_Witness ==
    /\ ret.op = "add_query"
    /\ ret.len = MAX_HISTORY_SIZE
    /\ Len(history.queries) = MAX_HISTORY_SIZE
    /\ ret.newest # Some(ret.query)
    /\ history.queries[MAX_HISTORY_SIZE] = Offered(ret)
    /\ history.queries[MAX_HISTORY_SIZE - 1].query = ret.newest.value

\* C32: suggest returns at most limit queries, each of an entry and
\* containing partial whatever the case, the more recent first, and none of
\* them twice, also when a matching query recurs in the history.
C32_Suggest ==
    ret.op = "suggest" =>
        LET sug == ret.suggestions
            At(str) == {k \in 1..Len(history.queries) :
                          history.queries[k].query = str}
        IN /\ Len(sug) <= ret.limit
           /\ \A i \in 1..Len(sug) :
                 /\ At(sug[i]) # {}
                 /\ contains(to_lowercase(sug[i]), to_lowercase(ret.partial))
           /\ \A i, j \in 1..Len(sug) :
                 i < j => \E a \in At(sug[i]), b \in At(sug[j]) : a > b
           /\ \A i, j \in 1..Len(sug) : i # j => sug[i] # sug[j]

(***************************************************************************)
(* The watcher's event loop.                                               *)
(***************************************************************************)
\* process_events: the paths of a batch that are handed to handle_changes,
\* those with an indexable extension (the tree of the model has no path
\* under the index directory).
Remaining(batch) == {p \in batch : should_index_file(p)}

\* C33: a batch of which a path remains after the filter gets its one
\* update_index: no such batch is left waiting in the channel by a watcher
\* whose thread has come to a stop.
C33_BatchUpdated == ~(wpc = "deadlocked" /\ Remaining(events) # {})

\* C36: the watcher never deadlocks itself on the index mutex: its thread
\* never calls lock() while it holds a guard of that mutex, as it does for
\* the second argument of the println!.
C36_NoRelock == ~(wpc = "printing" /\ mutex = "watcher")

\* C37: once the edits have stopped the watcher stays blocked on the event
\* channel: when the watch is installed and the thread has no step left, it
\* waits in rx.recv() and holds no guard.
C37_BlockedOnChannel ==
    (installed /\ wpc \notin {"watching", "printing"}) =>
        (wpc = "receiving" /\ mutex # "watcher")

(***************************************************************************)
(* The embedder.                                                           *)
(***************************************************************************)
\* The concatenation of the first k of the batches.
RECURSIVE Flatten(_, _)
Flatten(batches, k) ==
    IF k = 0 THEN <<>> ELSE Flatten(batches, k - 1) \o batches[k]

\* C34: embed_batch_with_progress with batch_size >= 1 embeds consecutive
\* slices of at most batch_size texts in input order and calls the callback
\* once after each slice with (min(slices * batch_size, total), total), so
\* done increases strictly, ends at total, and no call is made for no
\* texts; it returns the vector of each text in input order, and the error
\* and no vector when a slice fails.
C34_Progress ==
    (ret.op = "embed_batch_with_progress" /\ ret.batch_size >= 1) =>
        LET total == Len(ret.texts)
            slices == Len(ret.batches)
            calls == Len(ret.progress)
        IN /\ \A k \in 1..slices :
                 Len(ret.batches[k]) \in 1..ret.batch_size
           /\ IsPrefix(Flatten(ret.batches, slices), ret.texts)
           /\ \A k \in 1..calls :
                 /\ ret.progress[k] =
                       <<Min(k * ret.batch_size, total), total>>
                 /\ ret.progress[k][1] = Len(Flatten(ret.batches, k))
                 /\ k > 1 => ret.progress[k][1] > ret.progress[k - 1][1]
           /\ IF ret.status = "ok"
              THEN /\ calls = slices
                   /\ Flatten(ret.batches, slices) = ret.texts
                   /\ calls > 0 => ret.progress[calls][1] = total
                   /\ total = 0 => calls = 0
                   /\ Len(ret.embeddings) = total
                   /\ \A k \in 1..total :
                         ret.embeddings[k].of = ret.texts[k]
              ELSE /\ ret.status = "Embedding"
                   /\ calls = slices - 1
                   /\ ret.embeddings = <<>>

\* C34 witness: a successful call whose last slice is shorter than
\* batch_size, after a full one.
C34_Witness ==
    /\ ret.op = "embed_batch_with_progress"
    /\ ret.status = "ok"
    /\ ret.batch_size = 2
    /\ Len(ret.texts) = 3
    /\ ret.texts[1] # ret.texts[2]
    /\ ret.progress = <<(<<2, 3>>), (<<3, 3>>)>>

(***************************************************************************)
(* The chunker again: line counts and the number of chunks.                *)
(***************************************************************************)
\* C35: of every chunk, the ones emitted in the loop and the last one,
\* end_line - start_line + 1 is the number of lines joined in its text.
C35_LineCount ==
    Chunked =>
        \A j \in 1..Len(Emitted) :
            Emitted[j].end_line - Emitted[j].start_line + 1 =
                Len(TextLines(Emitted[j].text))

\* C35 witness: a chunk of two lines emitted in the loop, an empty line
\* among them, and a last chunk of two lines.
C35_Witness ==
    /\ Chunked
    /\ Len(Emitted) >= 2
    /\ Len(TextLines(Emitted[1].text)) = 2
    /\ <<>> \in {TextLines(Emitted[1].text)[l] : l \in 1..2}
    /\ Len(TextLines(Emitted[Len(Emitted)].text)) = 2

\* The chunks from the j-th on are runs of consecutive source lines, each
\* starting no later than the line after prev_end, the last line of the
\* chunk before, and ending later than it, the last of them at the last
\* source line.
RECURSIVE Advancing(_, _)
Advancing(j, prev_end) ==
    IF j > Len(Emitted) THEN prev_end = Len(SourceLines)
    ELSE LET lines == TextLines(Emitted[j].text)
         IN \E b \in (prev_end + 1)..Len(SourceLines) :
               /\ b - Len(lines) + 1 \in 1..(prev_end + 1)
               /\ SubSeq(SourceLines, b - Len(lines) + 1, b) = lines
               /\ Advancing(j + 1, b)

\* C40: chunk_text returns for every text, chunk_size and overlap, also an
\* overlap of chunk_size or more, a chunk_size of 0 and a line longer than
\* chunk_size; it emits at most one chunk per line of the text, and every
\* chunk holds a source line that no chunk before it held.
C40_Progress ==
    Chunked =>
        /\ Len(Emitted) <= Len(SourceLines)
        /\ Advancing(1, 0)

\* C40 witness: an overlap of chunk_size or more and lines longer than
\* chunk_size, where every line of three or more ends a chunk.
C40_Witness ==
    /\ Chunked
    /\ ret.chunker.overlap >= ret.chunker.chunk_size
    /\ Len(SourceLines) >= 3
    /\ Len(Emitted) = Len(SourceLines)
    /\ \E k \in 1..Len(SourceLines) :
          Len(SourceLines[k]) > ret.chunker.chunk_size

(***************************************************************************)
(* The statistics of an update.                                            *)
(***************************************************************************)
\* C38: the UpdateStats of a successful update_index count every discovered
\* file once, as added, updated or unchanged, and removed is the number of
\* the paths the index held before that were not discovered.
C38_Stats ==
    [][(fs' = fs /\ result'.op = "update_index" /\ result'.status = "ok") =>
          LET stats == result'.stats
          IN /\ stats.added + stats.updated + stats.unchanged =
                   Cardinality(Discovered)
             /\ stats.removed =
                   Cardinality(indexed_files(vi) \ Discovered)]_vars

\* C38 witness: an update that found one indexed file changed and the other
\* one gone.
C38_Witness ==
    /\ UpdateOk
    /\ result.stats.updated = 1
    /\ result.stats.removed = 1
    /\ Cardinality(Discovered) = 1

(***************************************************************************)
(* The hash map and the chunks.                                            *)
(***************************************************************************)
\* C39: after add_chunks and remove_file calls the keys of file_hashes are
\* the file_path values of the chunks, and file_count() is the number of
\* distinct files that have chunks.
C39_HashKeys ==
    loaded =>
        LET chunked == {vi.metadata.chunks[k].file_path :
                           k \in 1..Len(vi.metadata.chunks)}
        IN /\ DOMAIN vi.metadata.file_hashes = chunked
           /\ file_count(vi) = Cardinality(chunked)

\* C39 witness: remove_file has removed one file's chunks from an index
\* that holds the chunks of another file.
C39_Witness ==
    /\ loaded
    /\ ret.op = "remove_file" /\ ret.removed_ids # <<>>
    /\ Cardinality(DOMAIN vi.metadata.file_hashes) = 1
    /\ Len(vi.metadata.chunks) >= 2

====
